---------------------------- MODULE Spec2Model ----------------------------
(***************************************************************************)
(* Model of reportupdater: the interval triage (selector.py), the          *)
(* incremental merge and atomic artifact replacement (writer.py), the      *)
(* rerun directives (reportupdater.py, utils.py) and the pipeline that     *)
(* chains them (reader -> selector -> executor -> writer).                 *)
(*                                                                         *)
(* Instants (python datetime) are integers: seconds since                  *)
(* 2014-01-01T00:00:00, a Wednesday.  A relativedelta is a record of       *)
(* months, days and seconds.  A text in the DATE_FORMAT '%Y-%m-%d' is the  *)
(* number of its day, so formatting an instant drops its time of day.      *)
(***************************************************************************)
EXTENDS Integers, Sequences, FiniteSets, TLC

-----------------------------------------------------------------------------
(* Calendar (python datetime) *)

EpochYear == 2014
LastYear == 2017
SecondsPerHour == 3600
SecondsPerDay == 86400

IsLeap(y) == (y % 4 = 0 /\ y % 100 # 0) \/ y % 400 = 0

DaysInMonth(y, m) ==
    IF m = 2 THEN (IF IsLeap(y) THEN 29 ELSE 28)
    ELSE IF m \in {4, 6, 9, 11} THEN 30 ELSE 31

\* days of the year before the first of month m
DaysBeforeMonth(y, m) ==
    <<0, 31, 59, 90, 120, 151, 181, 212, 243, 273, 304, 334>>[m]
    + (IF m > 2 /\ IsLeap(y) THEN 1 ELSE 0)

\* leap years up to and including year n
LeapYearsTo(n) == (n \div 4) - (n \div 100) + (n \div 400)

\* days from the epoch to the first of January of y
DaysBeforeYear(y) ==
    (y - EpochYear) * 365 + LeapYearsTo(y - 1) - LeapYearsTo(EpochYear - 1)

\* datetime(y, m, d, 0, 0, 0) as an instant
Civil(y, m, d) ==
    (DaysBeforeYear(y) + DaysBeforeMonth(y, m) + (d - 1)) * SecondsPerDay

DayOf(t) == t \div SecondsPerDay
SecondOfDay(t) == t % SecondsPerDay

YearOf(t) ==
    CHOOSE y \in EpochYear..LastYear :
        /\ DaysBeforeYear(y) <= DayOf(t)
        /\ DayOf(t) < DaysBeforeYear(y) + (IF IsLeap(y) THEN 366 ELSE 365)

MonthOf(t) ==
    LET y == YearOf(t)
        n == DayOf(t) - DaysBeforeYear(y)
    IN  CHOOSE m \in 1..12 :
            /\ DaysBeforeMonth(y, m) <= n
            /\ n < DaysBeforeMonth(y, m) + DaysInMonth(y, m)

DayOfMonth(t) ==
    DayOf(t) - DaysBeforeYear(YearOf(t)) - DaysBeforeMonth(YearOf(t), MonthOf(t)) + 1

\* date.weekday(): Monday is 0, Sunday is 6
IsoWeekday_Weekday(t) == (DayOf(t) + 2) % 7

\* date.isoweekday(): Monday is 1, Sunday is 7
IsoWeekday(t) == ((DayOf(t) + 2) % 7) + 1

-----------------------------------------------------------------------------
(* dateutil.relativedelta *)

Min(a, b) == IF a <= b THEN a ELSE b
Max(a, b) == IF a >= b THEN a ELSE b

\* relativedelta(months=, days=, seconds=) after its normalisation: the
\* seconds beyond a day are carried into the days
RelativeDelta(months, days, seconds) ==
    [months |-> months,
     days |-> days + seconds \div SecondsPerDay,
     seconds |-> seconds % SecondsPerDay]

\* datetime + relativedelta: the months first, the day clipped to the
\* length of the month reached, then the days and seconds
AddDelta(t, delta) ==
    LET total == YearOf(t) * 12 + (MonthOf(t) - 1) + delta.months
        y == total \div 12
        m == (total % 12) + 1
        d == Min(DayOfMonth(t), DaysInMonth(y, m))
        shifted == IF delta.months = 0 THEN t
                   ELSE Civil(y, m, d) + SecondOfDay(t)
    IN  shifted + delta.days * SecondsPerDay + delta.seconds

NegDelta(delta) ==
    [months |-> -delta.months, days |-> -delta.days, seconds |-> -delta.seconds]

SubDelta(t, delta) == AddDelta(t, NegDelta(delta))

-----------------------------------------------------------------------------
(* utils.py: increments, texts, rerun intervals, previous results *)

Periods == {"hours", "days", "weeks", "months"}

\* get_increment and truncate_date raise ValueError('Period is not valid.')
\* for any other period
PeriodIsValid(period) == period \in Periods

get_increment(period, times) ==
    CASE period = "hours" -> RelativeDelta(0, 0, times * SecondsPerHour)
      [] period = "days" -> RelativeDelta(0, times, 0)
      [] period = "weeks" -> RelativeDelta(0, 7 * times, 0)
      [] period = "months" -> RelativeDelta(times, 0, 0)

\* Cells of a row.  In memory the first cell of a row is a datetime; in a
\* file every cell is a text: either one in the DATE_FORMAT (its day) or
\* any other string.
DateTime(t) == [kind |-> "datetime", n |-> t, s |-> ""]
DateText(day) == [kind |-> "datetext", n |-> day, s |-> ""]
Str(s) == [kind |-> "str", n |-> 0, s |-> s]
None == [kind |-> "none", n |-> 0, s |-> ""]

\* datetime.strftime(DATE_FORMAT): the time of day is dropped
strftime(t) == DateText(DayOf(t))

\* datetime.strptime(text, DATE_FORMAT) raises ValueError unless the text
\* has the format; the instant parsed is the midnight of the day
CanParseDate(cell) == cell.kind = "datetext"
strptime(cell) == cell.n * SecondsPerDay

\* csv.writer renders None as the empty string and leaves texts alone
CsvCell(cell) == IF cell.kind = "none" THEN Str("") ELSE cell

\* rerun_intervals is a sequence of <<start, end>>, or NoIntervals for None
NoIntervals == <<>>

\* needs_rerun with the end of the interval included
needs_rerun_EndInclusive(date, rerun_intervals) ==
    \E i \in 1..Len(rerun_intervals) :
        date >= rerun_intervals[i][1] /\ date <= rerun_intervals[i][2]

needs_rerun(date, rerun_intervals) ==
    \E i \in 1..Len(rerun_intervals) :
        date >= rerun_intervals[i][1] /\ date < rerun_intervals[i][2]

\* reruns.get(report.key, None)
RerunsGet(reruns, key) ==
    IF key \in DOMAIN reruns THEN reruns[key] ELSE NoIntervals

RECURSIVE SortedSeq(_)
SortedSeq(S) ==
    IF S = {} THEN <<>>
    ELSE LET least == CHOOSE x \in S : \A y \in S : x <= y
         IN  <<least>> \o SortedSeq(S \ {least})

\* sorted(explode_by.keys()) for the placeholder names of the model
PlaceholderOrder == <<"editor", "wiki">>

SortedPlaceholders(explode_by) ==
    SelectSeq(PlaceholderOrder, LAMBDA p : p \in DOMAIN explode_by)

\* os.path.join adds one separator before a value and keeps those the value
\* holds: the path components a value gives
PathComponents(value) ==
    IF value = "a/b" THEN <<"a", "b">>
    ELSE IF value = "b/c" THEN <<"b", "c">>
    ELSE <<value>>

RECURSIVE JoinValues(_, _)

\* the values of the placeholders joined in the order given
JoinValues(explode_by, placeholders) ==
    IF placeholders = <<>> THEN <<>>
    ELSE PathComponents(explode_by[Head(placeholders)])
             \o JoinValues(explode_by, Tail(placeholders))

\* The artifact path of a report below the output folder, as the sequence
\* of its components: <<key>> for key.tsv, <<key, v1, .., vn>> for
\* key/v1/../vn.tsv
get_exploded_report_output_path(explode_by, report_key) ==
    <<report_key>> \o JoinValues(explode_by, SortedPlaceholders(explode_by))

OutputPath(report) ==
    IF Cardinality(DOMAIN report.explode_by) > 0
    THEN get_exploded_report_output_path(report.explode_by, report.key)
    ELSE <<report.key>>

EmptyData == [d \in {} |-> <<>>]
EmptyResults == [header |-> <<>>, data |-> EmptyData]

\* The loop over the rows of the file: acc is
\* [raised, header, data]; a row with no first cell or with a first cell
\* that is not a date raises
RECURSIVE ReadRows(_, _, _, _, _)
ReadRows(rows, i, acc, report, reruns) ==
    IF acc.raised \/ i > Len(rows) THEN acc
    ELSE LET row == rows[i]
         IN  IF acc.header = <<>>
             THEN ReadRows(rows, i + 1, [acc EXCEPT !.header = row], report, reruns)
             ELSE IF Len(row) = 0 \/ ~CanParseDate(row[1])
             THEN [acc EXCEPT !.raised = TRUE]
             ELSE LET date == strptime(row[1])
                      parsed == [row EXCEPT ![1] = DateTime(date)]
                  IN  IF needs_rerun(date, RerunsGet(reruns, report.key))
                      THEN ReadRows(rows, i + 1, acc, report, reruns)
                      ELSE IF report.is_funnel
                      THEN ReadRows(rows, i + 1,
                               [acc EXCEPT !.data =
                                   IF date \in DOMAIN acc.data
                                   THEN [acc.data EXCEPT ![date] = Append(@, parsed)]
                                   ELSE (date :> <<parsed>>) @@ acc.data],
                               report, reruns)
                      ELSE ReadRows(rows, i + 1,
                               [acc EXCEPT !.data = (date :> parsed) @@ acc.data],
                               report, reruns)

\* files maps the path of every existing artifact to its lines
get_previous_results(report, files, reruns) ==
    LET output_path == OutputPath(report)
    IN  IF output_path \in DOMAIN files
        THEN ReadRows(files[output_path], 1,
                      [raised |-> FALSE, header |-> <<>>, data |-> EmptyData],
                      report, reruns)
        ELSE [raised |-> FALSE, header |-> <<>>, data |-> EmptyData]

-----------------------------------------------------------------------------
(* selector.py *)

\* truncate_date that only drops the time of day
truncate_date_ToDay(date, period) == date - SecondOfDay(date)

\* truncate_date that takes a Sunday to the Sunday before
truncate_date_NoModulo(date, period) ==
    CASE period = "hours" -> date - (date % SecondsPerHour)
      [] period = "days" -> date - SecondOfDay(date)
      [] period = "weeks" ->
            (date - SecondOfDay(date)) - IsoWeekday(date) * SecondsPerDay
      [] period = "months" -> Civil(YearOf(date), MonthOf(date), 1)

truncate_date(date, period) ==
    CASE period = "hours" -> date - (date % SecondsPerHour)
      [] period = "days" -> date - SecondOfDay(date)
      [] period = "weeks" ->
            (date - SecondOfDay(date)) - (IsoWeekday(date) % 7) * SecondsPerDay
      [] period = "months" -> Civil(YearOf(date), MonthOf(date), 1)

\* get_all_start_dates with a loop that stops before the last date
RECURSIVE StartDatesFrom_Exclusive(_, _, _)
StartDatesFrom_Exclusive(current_start, current_date, increment) ==
    IF current_start < current_date
    THEN <<current_start>> \o
         StartDatesFrom_Exclusive(AddDelta(current_start, increment), current_date,
                                  increment)
    ELSE <<>>

\* The dates the generator yields while current_start <= current_date
RECURSIVE StartDatesFrom(_, _, _)
StartDatesFrom(current_start, current_date, increment) ==
    IF current_start <= current_date
    THEN <<current_start>> \o
         StartDatesFrom(AddDelta(current_start, increment), current_date, increment)
    ELSE <<>>

\* get_all_start_dates that starts one increment after the first date
get_all_start_dates_FromSecond(first_date, current_date, increment) ==
    IF first_date > current_date
    THEN [raised |-> TRUE, dates |-> <<>>]
    ELSE IF increment.days < 0 \/ increment.months < 0
    THEN [raised |-> TRUE, dates |-> <<>>]
    ELSE [raised |-> FALSE,
          dates |-> StartDatesFrom(AddDelta(first_date, increment), current_date,
                                   increment)]

get_all_start_dates(first_date, current_date, increment) ==
    IF first_date > current_date
    THEN [raised |-> TRUE, dates |-> <<>>]
    ELSE IF increment.days < 0 \/ increment.months < 0
    THEN [raised |-> TRUE, dates |-> <<>>]
    ELSE [raised |-> FALSE,
          dates |-> StartDatesFrom(first_date, current_date, increment)]

\* max_data_points of a report without a retention limit (None)
NoLimit == 0

\* the last date without the bucket that has to elapse
TriageLast_NoBucket(report, now) ==
    truncate_date(SubDelta(now, RelativeDelta(0, 0, report.lag)), report.granularity)

\* The bounds of the triage of a report at the execution time now
TriageLast(report, now) ==
    LET lag_increment == RelativeDelta(0, 0, report.lag)
        granularity_increment == get_increment(report.granularity, 1)
        relative_now == SubDelta(SubDelta(now, lag_increment), granularity_increment)
    IN  truncate_date(relative_now, report.granularity)

TriageFirst(report, now) ==
    LET first_date == truncate_date(report.first_date, report.granularity)
        last_date == TriageLast(report, now)
    IN  IF report.max_data_points # NoLimit
        THEN Max(first_date,
                 SubDelta(last_date,
                          get_increment(report.granularity, report.max_data_points - 1)))
        ELSE first_date

\* every window of the range taken as due, the artifact never consulted
get_interval_reports_AllDue(report, now, files, reruns) ==
    LET granularity_increment == get_increment(report.granularity, 1)
        starts == get_all_start_dates(TriageFirst(report, now), TriageLast(report, now),
                                      granularity_increment)
    IN  [raised |-> starts.raised,
         reports |-> [i \in 1..Len(starts.dates) |->
             [report EXCEPT !.start = starts.dates[i],
                            !.end = AddDelta(starts.dates[i], granularity_increment)]]]

\* The windows of one exploded report: [raised, reports]
get_interval_reports(report, now, files, reruns) ==
    IF ~PeriodIsValid(report.granularity)
    THEN [raised |-> TRUE, reports |-> <<>>]
    ELSE
    LET granularity_increment == get_increment(report.granularity, 1)
        first_date == TriageFirst(report, now)
        last_date == TriageLast(report, now)
        previous_results == get_previous_results(report, files, reruns)
        already_done_dates == DOMAIN previous_results.data
        starts == get_all_start_dates(first_date, last_date, granularity_increment)
        due == SelectSeq(starts.dates, LAMBDA start : start \notin already_done_dates)
    IN  IF previous_results.raised \/ starts.raised
        THEN [raised |-> TRUE, reports |-> <<>>]
        ELSE [raised |-> FALSE,
              reports |-> [i \in 1..Len(due) |->
                  [report EXCEPT !.start = due[i],
                                 !.end = AddDelta(due[i], granularity_increment)]]]

\* set.pop() takes the placeholders in an order that the code does not
\* choose: every order of the placeholders is one that pop may follow
PopOrders == {<<"editor", "wiki">>, <<"wiki", "editor">>}

\* set.pop() of the remaining placeholders, for an order of pop
PopPlaceholder(remaining_placeholders, pop_order) ==
    pop_order[CHOOSE i \in DOMAIN pop_order :
                  /\ pop_order[i] \in remaining_placeholders
                  /\ \A j \in 1..(i - 1) : pop_order[j] \notin remaining_placeholders]

RECURSIVE ExplodeValues_FirstValue(_, _, _, _, _)
RECURSIVE ExplodeValues(_, _, _, _, _)
RECURSIVE explode(_, _, _)

\* the loop left after the first candidate value
ExplodeValues_FirstValue(report, placeholder, i, visited, pop_order) ==
    IF i > Len(report.explode_by[placeholder]) THEN <<>>
    ELSE explode([report EXCEPT !.explode_by[placeholder] = report.explode_by[placeholder][i]],
                 visited, pop_order)

\* The loop over the candidate values of one placeholder
ExplodeValues(report, placeholder, i, visited, pop_order) ==
    IF i > Len(report.explode_by[placeholder]) THEN <<>>
    ELSE explode([report EXCEPT !.explode_by[placeholder] = report.explode_by[placeholder][i]],
                 visited, pop_order)
         \o ExplodeValues(report, placeholder, i + 1, visited, pop_order)

explode(report, visited, pop_order) ==
    LET remaining_placeholders == (DOMAIN report.explode_by) \ visited
    IN  IF Cardinality(remaining_placeholders) > 0
        THEN LET placeholder == PopPlaceholder(remaining_placeholders, pop_order)
             IN  ExplodeValues(report, placeholder, 1, visited \cup {placeholder}, pop_order)
        ELSE <<report>>

-----------------------------------------------------------------------------
(* writer.py: the merge *)

\* rows of an entry of a data dict: a list of rows for a funnel report,
\* one row otherwise
RowsOf(report, entry) == IF report.is_funnel THEN entry ELSE <<entry>>

\* the order of strings, for the column names of the model
ColumnOrder == <<"a", "b", "c", "date", "day", "old", "value">>

\* c < d for two cells of a header line: the text of a date starts with a
\* digit and is before every name, two dates are in the order of time
ColumnLess(c, d) ==
    IF c.kind = "datetext" THEN d.kind # "datetext" \/ c.n < d.n
    ELSE /\ d.kind # "datetext"
         /\ \E i, j \in DOMAIN ColumnOrder :
                ColumnOrder[i] = c.s /\ ColumnOrder[j] = d.s /\ i < j

\* sorted(list(columns))
RECURSIVE SortedColumns(_)
SortedColumns(columns) ==
    IF columns = {} THEN <<>>
    ELSE LET first == CHOOSE c \in columns : \A d \in columns \ {c} : ColumnLess(c, d)
         IN  <<first>> \o SortedColumns(columns \ {first})

\* list.index(x): the first position of x
IndexOf(seq, x) ==
    CHOOSE i \in DOMAIN seq : seq[i] = x /\ \A j \in 1..(i - 1) : seq[j] # x

Range(seq) == {seq[i] : i \in DOMAIN seq}

SetMax(S) == CHOOSE x \in S : \A y \in S : y <= x

\* no threshold (None)
NoThreshold == -1

\* get_date_threshold with one more bucket kept
get_date_threshold_OneMore(report, previous_data) ==
    IF report.max_data_points = NoLimit THEN NoThreshold
    ELSE LET increment == get_increment(report.granularity, report.max_data_points + 1)
             last_data_point == SetMax((DOMAIN previous_data) \cup {report.start})
         IN  SubDelta(last_data_point, increment)

get_date_threshold(report, previous_data) ==
    IF report.max_data_points = NoLimit THEN NoThreshold
    ELSE LET increment == get_increment(report.granularity, report.max_data_points)
             last_data_point == SetMax((DOMAIN previous_data) \cup {report.start})
         IN  SubDelta(last_data_point, increment)

\* row.extend([None] * n)
ExtendRow(row, n) == row \o [i \in 1..n |-> None]

\* the rows of an entry mapped by f, keeping the shape of the entry
MapEntry(report, entry, f(_)) ==
    IF report.is_funnel THEN [i \in DOMAIN entry |-> f(entry[i])] ELSE f(entry)

\* a previous row padded to the new width, its values where they were
RewriteRow_ByPosition(row, column_map, width) ==
    [i \in 1..width |-> IF i <= Len(row) THEN row[i] ELSE None]

\* a previous row in the order of the new header: the mapped columns keep
\* their value, the others are None
RewriteRow(row, column_map, width) ==
    [i \in 1..width |->
        IF \E m \in column_map : m[1] = i
        THEN row[(CHOOSE m \in column_map : m[1] = i)[2]]
        ELSE None]

\* the previous dates that stay: all without a threshold, else those after it
KeptDates_FromThreshold(previous_dates, date_threshold) ==
    {date \in previous_dates : date_threshold = NoThreshold \/ date >= date_threshold}

KeptDates(previous_dates, date_threshold) ==
    {date \in previous_dates : date_threshold = NoThreshold \/ date > date_threshold}

\* dict.update with the entries of the previous data winning
Overlay_PreviousWins(kept_data, current_data) ==
    [date \in (DOMAIN kept_data) \cup (DOMAIN current_data) |->
        IF date \in DOMAIN kept_data THEN kept_data[date] ELSE current_data[date]]

\* updated_data.update(current_data) on the previous entries kept
Overlay(kept_data, current_data) ==
    [date \in (DOMAIN kept_data) \cup (DOMAIN current_data) |->
        IF date \in DOMAIN current_data THEN current_data[date] ELSE kept_data[date]]

\* every date of the current results taken as new
new_dates_All(current_dates, previous_dates) == current_dates

\* list(set(current_data.keys()) - set(previous_data.keys()))
new_dates(current_dates, previous_dates) == current_dates \ previous_dates

\* the columns of the previous header that the current one has not, sorted
removed_columns(current_header, previous_header) ==
    IF current_header # previous_header
    THEN SortedColumns({previous_header[i] : i \in DOMAIN previous_header}
                       \ {current_header[i] : i \in DOMAIN current_header})
    ELSE <<>>

\* the merged header with the previous header first
updated_header_PreviousFirst(current_header, previous_header) ==
    previous_header \o SelectSeq(current_header,
                                 LAMBDA c : \A i \in DOMAIN previous_header :
                                                previous_header[i] # c)

\* current_header.extend(removed_columns)
updated_header(current_header, previous_header) ==
    current_header \o removed_columns(current_header, previous_header)

\* the reruns update_results passes: {}
NoRerunsGiven == [k \in {} |-> <<>>]

\* [raised, header, data, new_dates] of update_results, the previous
\* results read from files without reruns
update_results(report, files) ==
    LET current_header == report.results.header
        current_data == report.results.data
        mismatch == \E date \in DOMAIN current_data :
                        \E row \in Range(RowsOf(report, current_data[date])) :
                            Len(row) # Len(current_header)
        previous_results == get_previous_results(report, files, NoRerunsGiven)
        previous_data == previous_results.data
        no_header == previous_results.header = <<>> /\ DOMAIN previous_data # {}
        previous_header == IF previous_results.header = <<>> THEN current_header
                           ELSE previous_results.header
        changed == current_header # previous_header
        merged_header == updated_header(current_header, previous_header)
        extended_data == [date \in DOMAIN current_data |->
                             MapEntry(report, current_data[date],
                                      LAMBDA row : ExtendRow(row,
                                          Len(removed_columns(current_header,
                                                              previous_header))))]
        column_map == {<<IndexOf(merged_header, col), IndexOf(previous_header, col)>> :
                          col \in Range(merged_header) \cap Range(previous_header)}
        short_row == changed /\
                     \E date \in DOMAIN previous_data :
                         \E row \in Range(RowsOf(report, previous_data[date])) :
                             \E m \in column_map : m[2] > Len(row)
        rewritten_data == IF changed
                          THEN [date \in DOMAIN previous_data |->
                                   MapEntry(report, previous_data[date],
                                            LAMBDA row : RewriteRow(row, column_map,
                                                                    Len(merged_header)))]
                          ELSE previous_data
        date_threshold == get_date_threshold(report, previous_data)
        kept == KeptDates(DOMAIN previous_data, date_threshold)
        updated_data == Overlay([date \in kept |-> rewritten_data[date]], extended_data)
    IN  IF mismatch \/ previous_results.raised \/ no_header \/ short_row
        THEN [raised |-> TRUE, header |-> <<>>, data |-> EmptyData, new_dates |-> {}]
        ELSE [raised |-> FALSE, header |-> merged_header, data |-> updated_data,
              new_dates |-> new_dates(DOMAIN current_data, DOMAIN previous_data)]

\* write_results: the rows in ascending order of date, the lists of a
\* funnel report flattened
RECURSIVE Flatten(_)
Flatten(lists) ==
    IF lists = <<>> THEN <<>> ELSE Head(lists) \o Flatten(Tail(lists))

\* write_results without sorted(): the rows in descending order of date
RowsToWrite_Unsorted(data, report) ==
    LET dates == SortedSeq(DOMAIN data)
        rows == [i \in DOMAIN dates |-> data[dates[Len(dates) + 1 - i]]]
    IN  IF report.is_funnel THEN Flatten(rows) ELSE rows

RowsToWrite(data, report) ==
    LET dates == SortedSeq(DOMAIN data)
        rows == [i \in DOMAIN dates |-> data[dates[i]]]
    IN  IF report.is_funnel THEN Flatten(rows) ELSE rows

\* row[0].strftime raises unless the first cell is a datetime
CanFormatRow(row) == Len(row) > 0 /\ row[1].kind = "datetime"

\* the line csv.writer writes for a row whose first cell was formatted
WrittenLine(row) ==
    [i \in DOMAIN row |-> IF i = 1 THEN strftime(row[1].n) ELSE CsvCell(row[i])]

-----------------------------------------------------------------------------
(* executor.py: the results of the producer, normalized *)

\* the first cell of a producer row: a date or datetime object (kind
\* "datetime"), a text, or anything else
DateCellIsValid(cell) ==
    cell.kind = "datetime" \/ (cell.kind \in {"datetext", "str"} /\ CanParseDate(cell))

NormalizedDate(cell) ==
    IF cell.kind = "datetime" THEN cell.n - SecondOfDay(cell.n) ELSE strptime(cell)

\* The loop over the rows: acc is [raised, has_header, header, data]
RECURSIVE NormalizeRows(_, _, _, _)
NormalizeRows(rows, i, acc, report) ==
    IF acc.raised \/ i > Len(rows) THEN acc
    ELSE LET row == rows[i]
         IN  IF ~acc.has_header
             THEN NormalizeRows(rows, i + 1,
                                [acc EXCEPT !.has_header = TRUE, !.header = row], report)
             ELSE IF Len(row) = 0 \/ ~DateCellIsValid(row[1])
             THEN [acc EXCEPT !.raised = TRUE]
             ELSE LET date == NormalizedDate(row[1])
                      normalized_row == [row EXCEPT ![1] = DateTime(date)]
                  IN  NormalizeRows(rows, i + 1,
                          [acc EXCEPT !.data =
                              IF report.is_funnel
                              THEN (IF date \in DOMAIN acc.data
                                    THEN [acc.data EXCEPT ![date] = Append(@, normalized_row)]
                                    ELSE (date :> <<normalized_row>>) @@ acc.data)
                              ELSE (date :> normalized_row) @@ acc.data],
                          report)

\* normalize_results without the row of nulls for a window with no data
normalize_results_NoEmptyRow(report, has_header, header, data) ==
    LET acc == NormalizeRows(data, 1,
                   [raised |-> FALSE, has_header |-> has_header,
                    header |-> header, data |-> EmptyData], report)
    IN  IF acc.raised \/ (DOMAIN acc.data = {} /\ ~acc.has_header)
        THEN [raised |-> TRUE, header |-> <<>>, data |-> EmptyData]
        ELSE [raised |-> FALSE, header |-> acc.header, data |-> acc.data]

\* [raised, header, data]; has_header is FALSE when the header passed is
\* None and the first row is the header
normalize_results(report, has_header, header, data) ==
    LET acc == NormalizeRows(data, 1,
                   [raised |-> FALSE, has_header |-> has_header,
                    header |-> header, data |-> EmptyData], report)
        empty_row == <<DateTime(report.start)>> \o [i \in 1..(Len(acc.header) - 1) |-> None]
    IN  IF acc.raised \/ (DOMAIN acc.data = {} /\ ~acc.has_header)
        THEN [raised |-> TRUE, header |-> <<>>, data |-> EmptyData]
        ELSE IF DOMAIN acc.data = {}
        THEN [raised |-> FALSE, header |-> acc.header,
              data |-> (report.start :> (IF report.is_funnel THEN <<empty_row>>
                                         ELSE empty_row))]
        ELSE [raised |-> FALSE, header |-> acc.header, data |-> acc.data]

-----------------------------------------------------------------------------
(* State *)

VARIABLES
    pc,             \* the position of reportupdater.run
    now,            \* config['current_exec_time']
    reports,        \* the report definitions the reader yields, in order
    files,          \* the output folder: artifact path -> lines
    temp_files,     \* the temporary files of write_results, by artifact path
    rerun_config,   \* config['reruns']: report key -> intervals
    triage,         \* the last call of get_interval_reports and its outcome
    cur_report,     \* the report instance the executor and the writer hold
    update,         \* the outcome of update_results and the rows being written
    graphite_sent,  \* the <<path, date>> of the rows recorded to graphite
    log,            \* the records logged in the run
    last_log,       \* the records logged in the run before
    rerun_folder,   \* the .reruns folder: file name -> stripped lines
    rerun_files,    \* the rerun files read_reruns parsed, to delete
    runs,           \* the number of runs started
    selector,       \* the position of the generators of Selector.run
    faults,         \* the number of failures of the environment so far
    pid_file,       \* the pid file of the query folder
    instances       \* the position of every started instance of run

writer_vars == <<temp_files, cur_report, update, graphite_sent, log>>

run_vars == <<last_log, rerun_folder, rerun_files, runs, selector>>

pid_vars == <<pid_file, instances>>

vars == <<pc, now, reports, files, temp_files, rerun_config, triage, cur_report,
          update, graphite_sent, log, last_log, rerun_folder, rerun_files, runs,
          selector, faults, pid_file, instances>>

-----------------------------------------------------------------------------
(* Inputs of the model *)

MaxNowSteps == 4
MaxDataPoints == 2
\* failures of the environment in one behaviour: a query that fails or
\* returns a malformed row, a file operation or a graphite record that raises
MaxFaults == 1

BaseDate == Civil(2015, 1, 1)

\* Report.__init__ and Reader.create_report
\* graphite: the report has graphite metrics and a Graphite is configured
Report(key, granularity, lag, first_date, explode_by, max_data_points, is_funnel, graphite) ==
    [key |-> key, type |-> "sql", granularity |-> granularity, lag |-> lag,
     first_date |-> first_date, start |-> 0, end |-> 0,
     explode_by |-> explode_by, max_data_points |-> max_data_points,
     is_funnel |-> is_funnel, graphite |-> graphite, results |-> EmptyResults]

NoExplode == [p \in {} |-> <<>>]

\* granularities Reader.get_granularity accepts
Granularities == {"days", "weeks", "months"}
Lags == {0, 100}
\* first dates: the base date, and a date inside the second bucket after it
FirstDates(granularity) ==
    {BaseDate,
     AddDelta(AddDelta(BaseDate, get_increment(granularity, 1)), RelativeDelta(0, 2, 0))}
Limits == {NoLimit} \cup 1..MaxDataPoints
\* offsets of the execution time from a bucket boundary: days and seconds
NowOffsets == {<<0, 0>>, <<2, 4830>>}

\* execution times: up to MaxNowSteps buckets after the base date
Nows(granularity) ==
    {AddDelta(AddDelta(BaseDate, get_increment(granularity, k)),
              RelativeDelta(0, o[1], o[2])) :
        k \in 0..MaxNowSteps, o \in NowOffsets}

\* lines of artifacts: a header and rows of a date and a value
Line(day, value) == <<DateText(day), Str(value)>>
HeaderLine == <<Str("date"), Str("value")>>
Day(y, m, d) == DayOf(Civil(y, m, d))

ArtifactChoices ==
    { <<HeaderLine>>,
      <<HeaderLine, Line(Day(2014, 12, 28), "1"), Line(Day(2015, 1, 1), "1"),
        Line(Day(2015, 1, 2), "a"), Line(Day(2015, 1, 4), "1"),
        Line(Day(2015, 2, 1), "1")>>,
      <<HeaderLine, Line(Day(2015, 1, 1), "1"), <<Str("bad date"), Str("1")>>>> }

FullArtifact ==
    <<HeaderLine, Line(Day(2014, 12, 28), "1"), Line(Day(2015, 1, 1), "1"),
      Line(Day(2015, 1, 2), "1"), Line(Day(2015, 1, 3), "1"),
      Line(Day(2015, 1, 4), "1"), Line(Day(2015, 2, 1), "1")>>

PathA == <<"r1", "a">>
PathB == <<"r1", "b">>
PathR2 == <<"r2">>

\* the files of a folder given as a set of <<path, lines>>
Folder(entries) ==
    [p \in {e[1] : e \in entries} |-> (CHOOSE e \in entries : e[1] = p)[2]]

FileChoices ==
    { Folder(a \cup {<<PathB, FullArtifact>>, <<PathR2, FullArtifact>>}) :
        a \in {{}} \cup {{<<PathA, lines>>} : lines \in ArtifactChoices} }

Interval(y1, m1, d1, y2, m2, d2) == <<Civil(y1, m1, d1), Civil(y2, m2, d2)>>

RerunChoices ==
    { [k \in {} |-> <<>>],
      [k \in {"r1"} |-> <<Interval(2015, 1, 2, 2015, 1, 4)>>],
      [k \in {"r1"} |-> <<Interval(2015, 1, 1, 2015, 1, 2), Interval(2015, 1, 4, 2015, 2, 1)>>],
      [k \in {"r2"} |-> <<Interval(2014, 12, 28, 2015, 2, 2)>>] }

Definitions(granularity, lag, first_date, limit) ==
    << Report("r1", granularity, lag, first_date,
              [p \in {"wiki"} |-> <<"a", "b">>], limit, FALSE, TRUE),
       Report("r2", granularity, lag, first_date, NoExplode, limit, FALSE, TRUE) >>

NoReport == Report("", "days", 0, 0, NoExplode, NoLimit, FALSE, FALSE)

NoTriage == [called |-> FALSE, report |-> NoReport, raised |-> FALSE, reports |-> <<>>]

NoUpdate == [header |-> <<>>, data |-> EmptyData, new_dates |-> {}, rows |-> <<>>,
             next |-> 1]

NoFiles == [p \in {} |-> <<>>]
NoReruns == [k \in {} |-> <<>>]

\* Selector.run before its first report: the next definition of the reader,
\* the exploded reports and the windows still to yield
NoSelector == [defs |-> 1, exploded |-> <<>>, intervals |-> <<>>]

\* the instances of run that may be started on the query folder
MaxInstances == 3
Instances == 1..MaxInstances

\* no pid file; a pid file holds the pid written, 0 while it holds nothing
NoPidFile == [exists |-> FALSE, pid |-> 0]
PidFile(pid) == [exists |-> TRUE, pid |-> pid]

\* no instance of run was started
NoInstances ==
    /\ pid_file = NoPidFile
    /\ instances = [i \in Instances |-> "idle"]

\* one run, with no rerun file
OneRun ==
    /\ last_log = {}
    /\ rerun_folder = NoFiles
    /\ rerun_files = <<>>
    /\ runs = 1
    /\ selector = NoSelector
    /\ faults = 0

-----------------------------------------------------------------------------
(* Triage of one exploded report, as called by Selector.run and by the    *)
(* tests: list(selector.get_interval_reports(report, now))                *)

TriageInit ==
    /\ pc = "triage"
    /\ \E g \in Granularities :
           /\ now \in Nows(g)
           /\ \E lag \in Lags, fd \in FirstDates(g), limit \in Limits :
                  reports = Definitions(g, lag, fd, limit)
    /\ files \in FileChoices
    /\ rerun_config \in RerunChoices
    /\ triage = NoTriage
    /\ temp_files = NoFiles
    /\ cur_report = NoReport
    /\ update = NoUpdate
    /\ graphite_sent = {}
    /\ log = {}
    /\ OneRun
    /\ NoInstances

TriageCall ==
    /\ pc = "triage"
    /\ \E d \in 1..Len(reports) :
       \E pop_order \in PopOrders :
       \E exploded \in {explode(reports[d], {}, pop_order)} :
       \E e \in 1..Len(exploded) :
       \E result \in {get_interval_reports(exploded[e], now, files, rerun_config)} :
           triage' = [called |-> TRUE, report |-> exploded[e],
                      raised |-> result.raised, reports |-> result.reports]
    /\ UNCHANGED <<pc, now, reports, files, rerun_config>>
    /\ UNCHANGED writer_vars
    /\ UNCHANGED run_vars
    /\ UNCHANGED faults
    /\ UNCHANGED pid_vars

TriageNext == TriageCall

SpecTriage == TriageInit /\ [][TriageNext]_vars

-----------------------------------------------------------------------------
(* Properties of the triage *)

\* the lines of the artifact of an exploded report, none when it is absent
ArtifactLines(report) ==
    IF OutputPath(report) \in DOMAIN files THEN files[OutputPath(report)] ELSE <<>>

\* every row of the artifact starts with a date
ArtifactReadable(report) ==
    \A i \in 2..Len(ArtifactLines(report)) :
        /\ Len(ArtifactLines(report)[i]) > 0
        /\ ArtifactLines(report)[i][1].kind = "datetext"

\* the date keys of the persisted artifact
PersistedDates(report) ==
    {ArtifactLines(report)[i][1].n * SecondsPerDay : i \in 2..Len(ArtifactLines(report))}

\* some rerun directive for the key of the report covers the date
CoveredByRerun(key, date) ==
    /\ key \in DOMAIN rerun_config
    /\ \E i \in DOMAIN rerun_config[key] :
           rerun_config[key][i][1] <= date /\ date < rerun_config[key][i][2]

AlreadyDone(report) ==
    {d \in PersistedDates(report) : ~CoveredByRerun(report.key, d)}

\* the granularity-aligned instants of [first, last]; every aligned instant
\* of days, weeks and months is a midnight
AlignedStarts(first, last, granularity) ==
    {s \in {d * SecondsPerDay : d \in DayOf(first)..DayOf(last)} :
        first <= s /\ s <= last /\ truncate_date(s, granularity) = s}

EmittedStarts == {triage.reports[i].start : i \in DOMAIN triage.reports}

\* C4: get_interval_reports emits a window with start s exactly for the
\* granularity-aligned starts s of [first, last] that are not in the
\* already-done set (the date keys of the binding's artifact minus the dates
\* a rerun directive for the report key covers), one window per start, each
\* with end = s + increment(granularity).
TriageEmitsDueWindows ==
    (triage.called /\ ArtifactReadable(triage.report)) =>
        LET report == triage.report
            due == AlignedStarts(TriageFirst(report, now), TriageLast(report, now),
                                 report.granularity)
                   \ AlreadyDone(report)
        IN  /\ EmittedStarts = due
            /\ Len(triage.reports) = Cardinality(due)
            /\ \A i \in DOMAIN triage.reports :
                   triage.reports[i].end =
                       AddDelta(triage.reports[i].start,
                                get_increment(report.granularity, 1))

\* a triage that emits a window, skips a done date of the range and emits
\* a persisted date that a rerun directive covers
TriageEmitsDueWindowsWitness ==
    /\ triage.called /\ ArtifactReadable(triage.report)
    /\ Len(triage.reports) >= 2
    /\ \E d \in AlreadyDone(triage.report) :
           /\ TriageFirst(triage.report, now) <= d
           /\ d <= TriageLast(triage.report, now)
           /\ d \notin EmittedStarts
    /\ \E d \in PersistedDates(triage.report) :
           CoveredByRerun(triage.report.key, d) /\ d \in EmittedStarts
    /\ \E i \in DOMAIN triage.reports :
           triage.reports[i].start \notin PersistedDates(triage.report)

\* C5: no emitted window starts before
\* max(truncate(firstDate, g), last - increment(g, M - 1)) (the first term
\* alone without a retention limit), none ends after truncate(now - lag, g),
\* and so end + lag <= now for every emitted window.
TriageWithinBounds ==
    triage.called =>
        LET report == triage.report
            g == report.granularity
            last == truncate_date(
                        SubDelta(SubDelta(now, RelativeDelta(0, 0, report.lag)),
                                 get_increment(g, 1)), g)
            lower == IF report.max_data_points = NoLimit
                     THEN truncate_date(report.first_date, g)
                     ELSE Max(truncate_date(report.first_date, g),
                              SubDelta(last, get_increment(g, report.max_data_points - 1)))
            upper == truncate_date(SubDelta(now, RelativeDelta(0, 0, report.lag)), g)
        IN  \A i \in DOMAIN triage.reports :
                /\ triage.reports[i].start >= lower
                /\ triage.reports[i].end <= upper
                /\ triage.reports[i].end + report.lag <= now

\* a triage with a lag and a retention limit whose first window starts at
\* the retention bound, after the first date, and whose last window ends at
\* truncate(now - lag, g)
TriageWithinBoundsWitness ==
    /\ triage.called
    /\ triage.report.lag > 0
    /\ triage.report.max_data_points # NoLimit
    /\ Len(triage.reports) >= 1
    /\ triage.reports[1].start > truncate_date(triage.report.first_date,
                                               triage.report.granularity)
    /\ triage.reports[Len(triage.reports)].end =
           truncate_date(SubDelta(now, RelativeDelta(0, 0, triage.report.lag)),
                         triage.report.granularity)

\* the rerun intervals given for a key, as [start, end) pairs
DirectivesFor(key) ==
    IF key \in DOMAIN rerun_config
    THEN {rerun_config[key][i] : i \in DOMAIN rerun_config[key]}
    ELSE {}

AllExploded ==
    UNION {Range(explode(reports[d], {}, pop_order)) :
              d \in DOMAIN reports, pop_order \in PopOrders}

\* C7: a persisted date d of a report is not-done exactly when a directive
\* [start, end) given for the report's key has start <= d < end, for every
\* dimension binding of the report; dates outside the range (d = end too)
\* and reports with another key stay done.  A not-done date of the triaged
\* range is emitted again, a done one is not.
RerunMarksRange ==
    /\ \A report \in AllExploded :
           ArtifactReadable(report) =>
               \A done \in {DOMAIN get_previous_results(report, files, rerun_config).data} :
               \A d \in PersistedDates(report) :
                   (d \notin done)
                   <=> (\E iv \in DirectivesFor(report.key) : iv[1] <= d /\ d < iv[2])
    /\ (triage.called /\ ~triage.raised) =>
           \A d \in PersistedDates(triage.report) :
               (d \in EmittedStarts) <=>
                   /\ \E iv \in DirectivesFor(triage.report.key) : iv[1] <= d /\ d < iv[2]
                   /\ TriageFirst(triage.report, now) <= d
                   /\ d <= TriageLast(triage.report, now)
                   /\ truncate_date(d, triage.report.granularity) = d

\* a triage of a binding of a report under a directive: a persisted date of
\* the range is emitted again, the persisted date equal to the end of the
\* directive is not, and a report with another key has its dates done
RerunMarksRangeWitness ==
    /\ triage.called /\ ~triage.raised
    /\ triage.report.explode_by = [p \in {"wiki"} |-> "b"]
    /\ \E iv \in DirectivesFor(triage.report.key) :
           /\ iv[1] \in EmittedStarts /\ iv[1] \in PersistedDates(triage.report)
           /\ iv[2] \in PersistedDates(triage.report)
           /\ iv[2] \notin EmittedStarts
           /\ iv[2] <= TriageLast(triage.report, now)
    /\ DirectivesFor("r2") = {}
    /\ PathR2 \in DOMAIN files

-----------------------------------------------------------------------------
(* Writer.run: the merge, the write and the graphite records of one report *)

LogEntry(stage, a_report) ==
    [stage |-> stage, path |-> OutputPath(a_report), start |-> a_report.start]

RemoveFile(folder, path) == [p \in (DOMAIN folder) \ {path} |-> folder[p]]

\* update_results is called outside the try of Writer.run: what it raises
\* leaves Writer.run and reportupdater.run
UpdateResults ==
    /\ pc = "update"
    /\ \E result \in {update_results(cur_report, files)} :
           IF result.raised
           THEN /\ pc' = "raised"
                /\ UNCHANGED update
           ELSE /\ pc' = "open"
                /\ update' = [header |-> result.header, data |-> result.data,
                              new_dates |-> result.new_dates,
                              rows |-> RowsToWrite(result.data, cur_report),
                              next |-> 1]
    /\ UNCHANGED <<now, reports, files, temp_files, rerun_config, triage, cur_report,
                   graphite_sent, log, faults>>
    /\ UNCHANGED run_vars
    /\ UNCHANGED pid_vars

\* a failure of the environment, while MaxFaults allows one more
Fault ==
    /\ faults < MaxFaults
    /\ faults' = faults + 1

\* an except that logs the error and goes on to record_to_graphite
Caught_ThenRecord ==
    /\ log' = log \cup {LogEntry("write", cur_report)}
    /\ pc' = "graphite"

\* the except of Writer.run: the error is logged and the loop goes on
Caught ==
    /\ log' = log \cup {LogEntry("write", cur_report)}
    /\ pc' = "select"

\* a step of write_results raises
WriteFailed == Fault /\ Caught

\* opening the artifact itself for writing, which truncates it
WriteOpen_InPlace ==
    /\ pc = "open"
    /\ \/ /\ temp_files' = (OutputPath(cur_report) :> <<>>) @@ temp_files
          /\ files' = (OutputPath(cur_report) :> <<>>) @@ files
          /\ pc' = "header"
          /\ UNCHANGED <<log, faults>>
       \/ /\ WriteFailed
          /\ UNCHANGED <<temp_files, files>>
    /\ UNCHANGED <<now, reports, rerun_config, triage, cur_report, update,
                   graphite_sent>>
    /\ UNCHANGED run_vars
    /\ UNCHANGED pid_vars

\* io.open(temp_output_path, 'wb'), which truncates the temporary file
WriteOpen ==
    /\ pc = "open"
    /\ \/ /\ temp_files' = (OutputPath(cur_report) :> <<>>) @@ temp_files
          /\ pc' = "header"
          /\ UNCHANGED <<log, faults>>
       \/ /\ WriteFailed
          /\ UNCHANGED temp_files
    /\ UNCHANGED <<now, reports, files, rerun_config, triage, cur_report, update,
                   graphite_sent>>
    /\ UNCHANGED run_vars
    /\ UNCHANGED pid_vars

\* tsv_writer.writerow(header)
WriteHeader ==
    /\ pc = "header"
    /\ \/ /\ temp_files' = [temp_files EXCEPT ![OutputPath(cur_report)] =
                               Append(@, [i \in DOMAIN update.header |->
                                             CsvCell(update.header[i])])]
          /\ pc' = "rows"
          /\ UNCHANGED <<log, faults>>
       \/ /\ WriteFailed
          /\ UNCHANGED temp_files
    /\ UNCHANGED <<now, reports, files, rerun_config, triage, cur_report, update,
                   graphite_sent>>
    /\ UNCHANGED run_vars
    /\ UNCHANGED pid_vars

\* row[0] = row[0].strftime(DATE_FORMAT); tsv_writer.writerow(row)
WriteRow ==
    /\ pc = "rows"
    /\ update.next <= Len(update.rows)
    /\ \/ /\ CanFormatRow(update.rows[update.next])
          /\ temp_files' = [temp_files EXCEPT ![OutputPath(cur_report)] =
                               Append(@, WrittenLine(update.rows[update.next]))]
          /\ update' = [update EXCEPT !.next = @ + 1]
          /\ UNCHANGED <<pc, log, faults>>
       \/ /\ ~CanFormatRow(update.rows[update.next])
          /\ Caught
          /\ UNCHANGED <<temp_files, update, faults>>
       \/ /\ WriteFailed
          /\ UNCHANGED <<temp_files, update>>
    /\ UNCHANGED <<now, reports, files, rerun_config, triage, cur_report,
                   graphite_sent>>
    /\ UNCHANGED run_vars
    /\ UNCHANGED pid_vars

\* temp_output_file.close()
WriteClose ==
    /\ pc = "rows"
    /\ update.next > Len(update.rows)
    /\ \/ /\ pc' = "rename"
          /\ UNCHANGED <<log, faults>>
       \/ WriteFailed
    /\ UNCHANGED <<now, reports, files, temp_files, rerun_config, triage, cur_report,
                   update, graphite_sent>>
    /\ UNCHANGED run_vars
    /\ UNCHANGED pid_vars

\* write_results that returns before the temporary file replaces the artifact
Rename_Deferred ==
    /\ pc = "rename"
    /\ pc' = "graphite"
    /\ UNCHANGED <<now, reports, files, temp_files, rerun_config, triage, cur_report,
                   update, graphite_sent, log, faults>>
    /\ UNCHANGED run_vars
    /\ UNCHANGED pid_vars

\* os.rename(temp_output_path, output_path)
Rename ==
    /\ pc = "rename"
    /\ \/ /\ files' = (OutputPath(cur_report) :> temp_files[OutputPath(cur_report)])
                      @@ files
          /\ temp_files' = RemoveFile(temp_files, OutputPath(cur_report))
          /\ pc' = "graphite"
          /\ UNCHANGED <<log, faults>>
       \/ /\ WriteFailed
          /\ UNCHANGED <<files, temp_files>>
    /\ UNCHANGED <<now, reports, rerun_config, triage, cur_report, update,
                   graphite_sent>>
    /\ UNCHANGED run_vars
    /\ UNCHANGED pid_vars

\* record_to_graphite: the rows of the new dates in ascending order; the
\* k first are recorded before a record raises
RecordToGraphite ==
    /\ pc = "graphite"
    /\ IF ~cur_report.graphite
       THEN UNCHANGED <<graphite_sent, log, faults>>
       ELSE \E dates \in {SortedSeq(update.new_dates)} :
            \E k \in 0..Len(dates) :
                /\ graphite_sent' = graphite_sent \cup
                       {<<OutputPath(cur_report), dates[i]>> : i \in 1..k}
                /\ IF k < Len(dates)
                   THEN Fault /\ log' = log \cup {LogEntry("write", cur_report)}
                   ELSE UNCHANGED <<log, faults>>
    /\ pc' = "select"
    /\ UNCHANGED <<now, reports, files, temp_files, rerun_config, triage, cur_report,
                   update>>
    /\ UNCHANGED run_vars
    /\ UNCHANGED pid_vars

WriterNext ==
    \/ UpdateResults
    \/ WriteOpen
    \/ WriteHeader
    \/ WriteRow
    \/ WriteClose
    \/ Rename
    \/ RecordToGraphite

-----------------------------------------------------------------------------
(* The writer on one executed report, over prior artifacts and results *)

ValueLine(day, values) == <<DateText(day)>> \o [i \in DOMAIN values |-> Str(values[i])]

PriorChoices ==
    { <<HeaderLine>>,
      <<HeaderLine, Line(Day(2015, 1, 1), "old"), Line(Day(2015, 1, 2), "old"),
        Line(Day(2015, 1, 3), "old")>>,
      <<HeaderLine, Line(Day(2015, 1, 1), "old"), Line(Day(2015, 1, 2), "old"),
        Line(Day(2015, 1, 2), "old2"), Line(Day(2015, 1, 4), "old")>>,
      <<<<Str("date"), Str("a"), Str("b")>>,
        ValueLine(Day(2015, 1, 1), <<"1", "2">>), ValueLine(Day(2015, 1, 2), <<"1", "2">>)>>,
      <<HeaderLine, Line(Day(2014, 11, 1), "old"), Line(Day(2014, 12, 1), "old"),
        Line(Day(2015, 1, 1), "old")>>,
      <<HeaderLine, Line(Day(2015, 1, 1), "old"), <<Str("bad date"), Str("1")>>>>,
      <<<<Str("date"), Str("c"), Str("b")>>, ValueLine(Day(2015, 1, 1), <<"1", "2">>)>>,
      <<Line(Day(2015, 1, 1), "old"), Line(Day(2015, 1, 2), "old")>> }

WriterFileChoices ==
    { Folder(a \cup {<<PathB, FullArtifact>>}) :
        a \in {{}} \cup {{<<PathA, lines>>} : lines \in PriorChoices} }

WriterStarts == {Civil(2015, 1, 1), Civil(2015, 1, 2), Civil(2015, 1, 4)}

\* what the producer returns for a window: a header and rows
ProducerRow(date, values) == <<DateTime(date)>> \o [i \in DOMAIN values |-> Str(values[i])]

ProducerChoices(start) ==
    { [header |-> HeaderLine, rows |-> <<ProducerRow(start, <<"new">>)>>],
      [header |-> HeaderLine,
       rows |-> <<ProducerRow(start, <<"new">>),
                  ProducerRow(start - SecondsPerDay, <<"new">>)>>],
      [header |-> HeaderLine,
       rows |-> <<ProducerRow(start, <<"new">>), ProducerRow(start + 4830, <<"new2">>)>>],
      [header |-> <<Str("date"), Str("a"), Str("c")>>,
       rows |-> <<ProducerRow(start, <<"3", "4">>)>>],
      [header |-> HeaderLine, rows |-> <<ProducerRow(start, <<"new", "extra">>)>>],
      [header |-> HeaderLine, rows |-> <<>>],
      [header |-> <<Str("day"), Str("value")>>,
       rows |-> <<ProducerRow(start, <<"new">>)>>],
      [header |-> HeaderLine, rows |-> <<ProducerRow(start + SecondsPerDay, <<"new">>)>>] }

WriterInit ==
    /\ pc = "update"
    /\ now = Civil(2015, 1, 6)
    /\ reports = <<>>
    /\ files \in WriterFileChoices
    /\ temp_files = NoFiles
    /\ rerun_config = NoReruns
    /\ triage = NoTriage
    /\ \E start \in WriterStarts, limit \in Limits, is_funnel \in BOOLEAN :
       \E granularity \in {"days", "months"} :
       \E produced \in ProducerChoices(start) :
       \E executed \in {[Report("r1", granularity, 0, BaseDate,
                                [p \in {"wiki"} |-> "a"], limit, is_funnel, TRUE)
                            EXCEPT !.start = start,
                                   !.end = AddDelta(start, get_increment(granularity, 1))]} :
       \E results \in {normalize_results(executed, TRUE, produced.header, produced.rows)} :
           /\ ~results.raised
           /\ cur_report = [executed EXCEPT !.results =
                               [header |-> results.header, data |-> results.data]]
    /\ update = NoUpdate
    /\ graphite_sent = {}
    /\ log = {}
    /\ OneRun
    /\ NoInstances

SpecWriter == WriterInit /\ [][WriterNext]_vars

-----------------------------------------------------------------------------
(* Properties of the writer *)

CurPath == OutputPath(cur_report)

\* write_results is between its first and its last step
Writing == pc \in {"open", "header", "rows", "rename"}

\* the complete new artifact: the header and every row of the merge
CompleteArtifact ==
    <<[i \in DOMAIN update.header |-> CsvCell(update.header[i])]>>
    \o [i \in DOMAIN update.rows |-> WrittenLine(update.rows[i])]

\* C2: the file at the artifact path changes in one step only, the rename,
\* from the previous artifact to the complete new one; every other step of
\* write_results, and every step that fails, leaves every artifact as it was.
AtomicReplacement ==
    [][/\ (files' # files) =>
              /\ pc = "rename" /\ pc' = "graphite"
              /\ files' = (CurPath :> CompleteArtifact) @@ files
       /\ (log' # log) => files' = files]_vars

\* a write that failed after the header and a row were written to the
\* temporary file, the previous artifact still in place
AtomicReplacementWitness ==
    /\ pc = "select"
    /\ LogEntry("write", cur_report) \in log
    /\ CurPath \in DOMAIN files
    /\ CurPath \in DOMAIN temp_files
    /\ Len(temp_files[CurPath]) >= 2
    /\ Len(temp_files[CurPath]) < Len(CompleteArtifact)

FreshData == cur_report.results.data

\* a merged row holds the values of the fresh row, then only None
HoldsFreshRow(merged_row, fresh_row) ==
    /\ Len(merged_row) >= Len(fresh_row)
    /\ \A i \in DOMAIN merged_row :
           merged_row[i] = (IF i <= Len(fresh_row) THEN fresh_row[i] ELSE None)

HoldsFreshEntry(merged_entry, fresh_entry) ==
    /\ Len(RowsOf(cur_report, merged_entry)) = Len(RowsOf(cur_report, fresh_entry))
    /\ \A i \in DOMAIN RowsOf(cur_report, fresh_entry) :
           HoldsFreshRow(RowsOf(cur_report, merged_entry)[i],
                         RowsOf(cur_report, fresh_entry)[i])

\* the lines of an artifact that start with the date
LinesOfDate(lines, date) ==
    SelectSeq(SubSeq(lines, 2, Len(lines)),
              LAMBDA line : Len(line) > 0 /\ line[1] = strftime(date))

\* C6: the merged dates are the fresh dates and surviving prior dates; for
\* every fresh date the merged entry is the fresh one (for a funnel report
\* the whole list), and once the artifact is replaced its lines of that
\* date are those of the fresh rows and no old line.
FreshWins ==
    /\ Writing =>
           /\ DOMAIN FreshData \subseteq DOMAIN update.data
           /\ (DOMAIN update.data) \ (DOMAIN FreshData) \subseteq PersistedDates(cur_report)
           /\ \A d \in DOMAIN FreshData : HoldsFreshEntry(update.data[d], FreshData[d])
    /\ pc = "graphite" =>
           \A d \in DOMAIN FreshData :
               LinesOfDate(files[CurPath], d) =
                   [i \in DOMAIN RowsOf(cur_report, update.data[d]) |->
                       WrittenLine(RowsOf(cur_report, update.data[d])[i])]

\* the artifact replaced after a merge whose window date had an old row:
\* the date holds the new value and the old one is nowhere on its lines
FreshWinsWitness ==
    /\ pc = "graphite"
    /\ cur_report.start \in DOMAIN FreshData
    /\ cur_report.start \notin update.new_dates
    /\ Len(files[CurPath]) > 2
    /\ \E i \in DOMAIN LinesOfDate(files[CurPath], cur_report.start) :
           LinesOfDate(files[CurPath], cur_report.start)[i][2] = Str("new")
    /\ \A i \in DOMAIN LinesOfDate(files[CurPath], cur_report.start) :
           LinesOfDate(files[CurPath], cur_report.start)[i][2] \notin {Str("old"), Str("old2")}

\* max(prior dates united with {report.start}) - increment(granularity, M)
EvictionThreshold ==
    SubDelta(SetMax(PersistedDates(cur_report) \cup {cur_report.start}),
             get_increment(cur_report.granularity, cur_report.max_data_points))

\* C10: with a retention limit M a prior date that the fresh results do not
\* hold is kept exactly when it is strictly greater than
\* max(prior dates united with {report.start}) - increment(granularity, M);
\* without a limit every prior date is kept.
EvictionKeepsAfterThreshold ==
    Writing =>
        \A d \in PersistedDates(cur_report) \ DOMAIN FreshData :
            (d \in DOMAIN update.data) <=>
                (cur_report.max_data_points = NoLimit \/ d > EvictionThreshold)

\* a merge with a limit that evicts a prior date, the one at the threshold
\* included, and keeps a later one
EvictionKeepsAfterThresholdWitness ==
    /\ Writing
    /\ cur_report.max_data_points # NoLimit
    /\ EvictionThreshold \in PersistedDates(cur_report) \ DOMAIN update.data
    /\ \E d \in PersistedDates(cur_report) \ DOMAIN FreshData : d \in DOMAIN update.data

-----------------------------------------------------------------------------
(* reportupdater.run: runs of the whole pipeline, one after the other *)

MaxRuns == 2

\* parse_reruns: the two dates are parsed before rerun_config is touched;
\* a file of fewer than two lines raises IndexError, a line that is not a
\* date raises ValueError
parse_reruns(lines, config) ==
    IF Len(lines) < 2 \/ ~CanParseDate(lines[1]) \/ ~CanParseDate(lines[2])
    THEN [raised |-> TRUE, rerun_config |-> config]
    ELSE LET interval == <<strptime(lines[1]), strptime(lines[2])>>
             keys == {lines[i].s : i \in 3..Len(lines)}
         IN  [raised |-> FALSE,
              rerun_config |->
                  [k \in (DOMAIN config) \cup keys |->
                      IF k \in keys THEN Append(RerunsGet(config, k), interval)
                      ELSE config[k]]]

\* the body of the loop of read_reruns with the file listed before it is parsed
ReadRerunFile_AppendFirst(acc, name, lines) ==
    LET parsed == parse_reruns(lines, acc.rerun_config)
    IN  IF parsed.raised
        THEN [acc EXCEPT !.rerun_files = Append(@, name), !.ignored = @ \cup {name}]
        ELSE [acc EXCEPT !.rerun_config = parsed.rerun_config,
                         !.rerun_files = Append(@, name)]

\* the body of the loop of read_reruns over one rerun candidate
ReadRerunFile(acc, name, lines) ==
    LET parsed == parse_reruns(lines, acc.rerun_config)
    IN  IF parsed.raised
        THEN [acc EXCEPT !.ignored = @ \cup {name}]
        ELSE [acc EXCEPT !.rerun_config = parsed.rerun_config,
                         !.rerun_files = Append(@, name)]

RECURSIVE ReadRerunFiles(_, _, _, _)
ReadRerunFiles(folder, rerun_candidates, i, acc) ==
    IF i > Len(rerun_candidates) THEN acc
    ELSE ReadRerunFiles(folder, rerun_candidates, i + 1,
             ReadRerunFile(acc, rerun_candidates[i], folder[rerun_candidates[i]]))

\* read_reruns over the listing of the folder: [rerun_config, rerun_files]
\* and the files ignored with a warning
read_reruns(folder, rerun_candidates) ==
    ReadRerunFiles(folder, rerun_candidates, 1,
        [rerun_config |-> NoReruns, rerun_files |-> <<>>, ignored |-> {}])

\* the orders in which os.listdir can list the files
Listings(folder) ==
    {order \in [1..Cardinality(DOMAIN folder) -> DOMAIN folder] :
        \A i, j \in DOMAIN order : i # j => order[i] # order[j]}

\* a record of the log about a file or a report definition
LogAbout(stage, name) == [stage |-> stage, path |-> <<name>>, start |-> 0]

\* utcnow() of a run: the instant of the run before, or a day later
StartRun ==
    /\ pc \in {"idle", "raised"}
    /\ runs < MaxRuns
    /\ runs' = runs + 1
    /\ now' \in {now, now + SecondsPerDay}
    /\ \E rerun_candidates \in Listings(rerun_folder) :
       \E read \in {read_reruns(rerun_folder, rerun_candidates)} :
           /\ rerun_config' = read.rerun_config
           /\ rerun_files' = read.rerun_files
           /\ log' = {LogAbout("rerun_ignored", name) : name \in read.ignored}
    /\ last_log' = log
    /\ selector' = NoSelector
    /\ pc' = "select"
    /\ UNCHANGED <<reports, files, temp_files, triage, cur_report, update,
                   graphite_sent, rerun_folder, faults>>
    /\ UNCHANGED pid_vars

\* Selector.run: the next report of the reader, exploded
SelectDefinition ==
    /\ pc = "select"
    /\ selector.intervals = <<>> /\ selector.exploded = <<>>
    /\ selector.defs <= Len(reports)
    /\ \E pop_order \in PopOrders :
           selector' = [defs |-> selector.defs + 1,
                        exploded |-> explode(reports[selector.defs], {}, pop_order),
                        intervals |-> <<>>]
    /\ UNCHANGED <<pc, now, reports, files, temp_files, rerun_config, triage,
                   cur_report, update, graphite_sent, log, last_log, rerun_folder,
                   rerun_files, runs, faults>>
    /\ UNCHANGED pid_vars

\* Selector.run: get_interval_reports of the next exploded report; what it
\* raises is logged and ends the loop over the exploded reports
SelectExploded ==
    /\ pc = "select"
    /\ selector.intervals = <<>> /\ selector.exploded # <<>>
    /\ \E result \in {get_interval_reports(Head(selector.exploded), now, files,
                                           rerun_config)} :
           IF result.raised
           THEN /\ selector' = [selector EXCEPT !.exploded = <<>>]
                /\ log' = log \cup {LogAbout("triage", Head(selector.exploded).key)}
           ELSE /\ selector' = [selector EXCEPT !.exploded = Tail(@),
                                                !.intervals = result.reports]
                /\ UNCHANGED log
    /\ UNCHANGED <<pc, now, reports, files, temp_files, rerun_config, triage,
                   cur_report, update, graphite_sent, last_log, rerun_folder,
                   rerun_files, runs, faults>>
    /\ UNCHANGED pid_vars

\* Selector.run yields the next window to Executor.run
SelectInterval ==
    /\ pc = "select"
    /\ selector.intervals # <<>>
    /\ cur_report' = Head(selector.intervals)
    /\ selector' = [selector EXCEPT !.intervals = Tail(@)]
    /\ pc' = "execute"
    /\ UNCHANGED <<now, reports, files, temp_files, rerun_config, triage, update,
                   graphite_sent, log, last_log, rerun_folder, rerun_files, runs,
                   faults>>
    /\ UNCHANGED pid_vars

\* Selector.run is exhausted: Writer.run returns
SelectDone ==
    /\ pc = "select"
    /\ selector.intervals = <<>> /\ selector.exploded = <<>>
    /\ selector.defs > Len(reports)
    /\ pc' = "delete_reruns"
    /\ UNCHANGED <<now, reports, files, temp_files, rerun_config, triage, cur_report,
                   update, graphite_sent, log, faults>>
    /\ UNCHANGED run_vars
    /\ UNCHANGED pid_vars

\* what the producer of a window returns: a header and a row of the window
QueryResults(start) ==
    { [header |-> HeaderLine, rows |-> <<ProducerRow(start, <<"new">>)>>] }

\* the output of a script with a row longer than its header line; the rows
\* of a query have the length of the cursor's description
MalformedOutput(start) ==
    { [header |-> HeaderLine, rows |-> <<ProducerRow(start, <<"new", "extra">>)>>] }

\* a producer that dates its row a week after the start of the window
LateResults(start) ==
    { [header |-> HeaderLine,
       rows |-> <<ProducerRow(start + 7 * SecondsPerDay, <<"new">>)>>] }

\* what the producers of the run may return for a window: "window" for
\* producers that date every row at the start of the window, "late" for
\* producers that may date it after the window
Produced(producers, start) ==
    IF producers = "late" THEN QueryResults(start) \cup LateResults(start)
    ELSE QueryResults(start)

\* execute_sql_report passes the header of the cursor; execute_script_report
\* passes None and the lines of the output, the header line first
NormalizedOutput(report, produced) ==
    IF report.type = "script"
    THEN normalize_results(report, FALSE, <<>>, <<produced.header>> \o produced.rows)
    ELSE normalize_results(report, TRUE, produced.header, produced.rows)

\* Executor.run, execute_sql_report and execute_script_report: the producer
\* fails, or its results are normalized and the report is yielded to
\* Writer.run
ExecuteFrom(producers) ==
    /\ pc = "execute"
    /\ \/ /\ Fault
          /\ log' = log \cup {LogEntry("executing", cur_report),
                              LogEntry("execute", cur_report)}
          /\ pc' = "select"
          /\ UNCHANGED cur_report
       \/ \E malformed \in {FALSE, cur_report.type = "script"} :
          \E produced \in (IF malformed THEN MalformedOutput(cur_report.start)
                           ELSE Produced(producers, cur_report.start)) :
          \E results \in {NormalizedOutput(cur_report, produced)} :
              /\ IF malformed THEN Fault ELSE UNCHANGED faults
              /\ IF results.raised
                 THEN /\ log' = log \cup {LogEntry("executing", cur_report),
                                          LogEntry("execute", cur_report)}
                      /\ pc' = "select"
                      /\ UNCHANGED cur_report
                 ELSE /\ log' = log \cup {LogEntry("executing", cur_report)}
                      /\ pc' = "update"
                      /\ cur_report' = [cur_report EXCEPT !.results =
                                           [header |-> results.header,
                                            data |-> results.data]]
    /\ UNCHANGED <<now, reports, files, temp_files, rerun_config, triage, update,
                   graphite_sent>>
    /\ UNCHANGED run_vars
    /\ UNCHANGED pid_vars

\* Executor.run with producers that date their rows at the window start
Execute == ExecuteFrom("window")

\* delete_reruns that leaves the last of the files it was given
DeleteReruns_SkipsLast ==
    /\ pc = "delete_reruns"
    /\ rerun_folder' =
           [name \in (DOMAIN rerun_folder) \
                     {rerun_files[i] : i \in 1..(Len(rerun_files) - 1)} |->
               rerun_folder[name]]
    /\ pc' = "idle"
    /\ UNCHANGED <<now, reports, files, temp_files, rerun_config, triage, cur_report,
                   update, graphite_sent, log, last_log, rerun_files, runs, selector,
                   faults>>
    /\ UNCHANGED pid_vars

\* delete_reruns(rerun_files), after writer.run() has returned
DeleteReruns ==
    /\ pc = "delete_reruns"
    /\ rerun_folder' = [name \in (DOMAIN rerun_folder) \ Range(rerun_files) |->
                           rerun_folder[name]]
    /\ pc' = "idle"
    /\ UNCHANGED <<now, reports, files, temp_files, rerun_config, triage, cur_report,
                   update, graphite_sent, log, last_log, rerun_files, runs, selector,
                   faults>>
    /\ UNCHANGED pid_vars

Next ==
    \/ StartRun
    \/ SelectDefinition
    \/ SelectExploded
    \/ SelectInterval
    \/ SelectDone
    \/ Execute
    \/ UpdateResults
    \/ WriteOpen
    \/ WriteHeader
    \/ WriteRow
    \/ WriteClose
    \/ Rename
    \/ RecordToGraphite
    \/ DeleteReruns

\* the rerun files an operator left: a directive for r2, with or without a
\* second one for r1 and r2, a file with a line that is no date and a file
\* of one line
RerunLines(y1, m1, d1, y2, m2, d2, keys) ==
    <<DateText(Day(y1, m1, d1)), DateText(Day(y2, m2, d2))>>
    \o [i \in DOMAIN keys |-> Str(keys[i])]

RerunFolderChoices ==
    { NoFiles,
      [name \in {"f1"} |-> RerunLines(2015, 1, 1, 2015, 1, 2, <<"r2">>)],
      [name \in {"f1", "f2"} |->
          IF name = "f1" THEN RerunLines(2015, 1, 1, 2015, 1, 2, <<"r2">>)
          ELSE RerunLines(2015, 1, 2, 2015, 1, 3, <<"r2", "r3">>)],
      [name \in {"f1", "f2"} |->
          IF name = "f1" THEN RerunLines(2015, 1, 1, 2015, 1, 2, <<"r2">>)
          ELSE <<DateText(Day(2015, 1, 1)), Str("2015-01"), Str("r2")>>],
      [name \in {"f1", "f2"} |->
          IF name = "f1" THEN RerunLines(2015, 1, 1, 2015, 1, 2, <<"r2">>)
          ELSE <<DateText(Day(2015, 1, 1))>>] }

\* an artifact with the days of the runs computed
DoneArtifact ==
    <<HeaderLine, Line(Day(2015, 1, 1), "old"), Line(Day(2015, 1, 2), "old"),
      Line(Day(2015, 1, 3), "old"), Line(Day(2015, 1, 4), "old")>>

\* an artifact with a row that does not start with a date
UnreadableArtifact == <<HeaderLine, <<Str("bad date"), Str("1")>>>>

\* the artifacts before the first run: r1 of wiki a absent or unreadable,
\* r1 of wiki b and r2 computed; or r1 of wiki a absent and r1 of wiki b
\* unreadable
RunFileChoices ==
    { Folder(a \cup {<<PathB, DoneArtifact>>, <<PathR2, DoneArtifact>>}) :
        a \in {{}, {<<PathA, UnreadableArtifact>>}} }
    \cup { Folder({<<PathB, UnreadableArtifact>>, <<PathR2, DoneArtifact>>}) }

Init ==
    /\ pc = "idle"
    /\ now = Civil(2015, 1, 2)
    /\ \E limit \in {NoLimit, MaxDataPoints}, type \in {"sql", "script"} :
           reports = [d \in 1..2 |->
                         [Definitions("days", 0, BaseDate, limit)[d] EXCEPT !.type = type]]
    /\ files \in RunFileChoices
    /\ temp_files = NoFiles
    /\ rerun_config = NoReruns
    /\ triage = NoTriage
    /\ cur_report = NoReport
    /\ update = NoUpdate
    /\ graphite_sent = {}
    /\ log = {}
    /\ last_log = {}
    /\ rerun_folder \in RerunFolderChoices
    /\ rerun_files = <<>>
    /\ runs = 0
    /\ selector = NoSelector
    /\ faults = 0
    /\ NoInstances

Spec == Init /\ [][Next]_vars

-----------------------------------------------------------------------------
(* Properties of the runs *)

\* C1: no exception of the merge or the persist of a report instance leaves
\* Writer.run: the run never ends by an exception.
WriterRunCatchesAll == pc # "raised"

\* a rerun file that parse_reruns accepts: two dates, then report keys
WellFormed(lines) ==
    /\ Len(lines) >= 2
    /\ lines[1].kind = "datetext"
    /\ lines[2].kind = "datetext"

WellFormedFiles == {name \in DOMAIN rerun_folder : WellFormed(rerun_folder[name])}

\* the intervals the well-formed files of the folder give for a report key
IntervalsOfFiles(names, key) ==
    {<<rerun_folder[name][1].n * SecondsPerDay, rerun_folder[name][2].n * SecondsPerDay>> :
        name \in {f \in names : \E i \in 3..Len(rerun_folder[f]) :
                                    rerun_folder[f][i] = Str(key)}}

KeysOfFiles(names) ==
    UNION {{rerun_folder[name][i].s : i \in 3..Len(rerun_folder[name])} : name \in names}

\* C9: during a run, the files to delete are the well-formed files of the
\* folder and no other, and the rerun configuration is the one the
\* well-formed files give, as if the malformed ones were not there; each
\* malformed file is logged, and the run goes on: it ends by an exception
\* only after a failure of the environment.
MalformedRerunSkipped ==
    pc # "idle" =>
        /\ Range(rerun_files) = WellFormedFiles
        /\ DOMAIN rerun_config = KeysOfFiles(WellFormedFiles)
        /\ \A key \in DOMAIN rerun_config :
               DirectivesFor(key) = IntervalsOfFiles(WellFormedFiles, key)
        /\ \A name \in (DOMAIN rerun_folder) \ WellFormedFiles :
               LogAbout("rerun_ignored", name) \in log
        /\ (pc = "raised" => faults > 0)

\* the end of a run that read a malformed file and a well-formed one, and
\* computed again a window of the directive of the well-formed one
MalformedRerunSkippedWitness ==
    /\ pc = "delete_reruns"
    /\ WellFormedFiles # {}
    /\ (DOMAIN rerun_folder) \ WellFormedFiles # {}
    /\ \E e \in log : e.stage = "executing" /\ CoveredByRerun(e.path[1], e.start)

FailedWindowRetried ==
    (runs >= 2 /\ pc = "delete_reruns") =>
        \A e \in last_log :
            e.stage = "execute" =>
                \A r \in {x \in AllExploded : OutputPath(x) = e.path} :
                    (/\ e.start >= TriageFirst(r, now)
                     /\ e.start <= TriageLast(r, now)
                     /\ LogAbout("triage", r.key) \notin log)
                    => [e EXCEPT !.stage = "executing"] \in log

-----------------------------------------------------------------------------
(* Runs of one report with a retention limit *)

\* the report: days from an execution time of 2015-01-03, months from one
\* of 2015-03-31, so that a day later its last window has moved
RetentionNow(granularity) ==
    IF granularity = "days" THEN Civil(2015, 1, 3) ELSE Civil(2015, 3, 31)

\* the artifact before the first run: absent, the first window, or more
\* windows than any limit
RetentionFileChoices ==
    { NoFiles,
      Folder({<<PathR2, <<HeaderLine, Line(Day(2015, 1, 1), "old")>>>>}),
      Folder({<<PathR2, <<HeaderLine, Line(Day(2014, 10, 1), "old"),
                          Line(Day(2014, 11, 1), "old"), Line(Day(2014, 12, 1), "old"),
                          Line(Day(2015, 1, 1), "old")>>>>}) }

\* no rerun file, or a directive for the first windows of the report
RetentionRerunChoices ==
    { NoFiles,
      [name \in {"f1"} |-> RerunLines(2015, 1, 1, 2015, 3, 1, <<"r2">>)] }

RetentionInit ==
    /\ pc = "idle"
    /\ \E granularity \in {"days", "months"}, limit \in 1..MaxDataPoints :
           /\ now = RetentionNow(granularity)
           /\ reports = <<Report("r2", granularity, 0, BaseDate, NoExplode, limit,
                                 FALSE, TRUE)>>
    /\ files \in RetentionFileChoices
    /\ temp_files = NoFiles
    /\ rerun_config = NoReruns
    /\ triage = NoTriage
    /\ cur_report = NoReport
    /\ update = NoUpdate
    /\ graphite_sent = {}
    /\ log = {}
    /\ last_log = {}
    /\ rerun_folder \in RetentionRerunChoices
    /\ rerun_files = <<>>
    /\ runs = 0
    /\ selector = NoSelector
    /\ faults = 0
    /\ NoInstances

SpecRetention == RetentionInit /\ [][Next]_vars

\* C11: after every successful merge of a report with a retention limit M,
\* in runs of non-decreasing execution times whose producers return rows
\* dated at the window start, the artifact holds at most M distinct dates.
RetentionBound ==
    (pc = "graphite" /\ cur_report.max_data_points # NoLimit) =>
        Cardinality(PersistedDates(cur_report)) <= cur_report.max_data_points

\* a merge of the second run, no failure so far, after which the artifact
\* holds M dates and a window computed before is gone
RetentionBoundWitness ==
    /\ pc = "graphite"
    /\ runs = 2
    /\ faults = 0
    /\ Cardinality(PersistedDates(cur_report)) = cur_report.max_data_points
    /\ \E e \in last_log : e.stage = "executing" /\ e.start \notin PersistedDates(cur_report)

-----------------------------------------------------------------------------
(* Properties of the merge: headers and rows *)

FreshHeader == cur_report.results.header

\* the header the merge takes as the previous one: the first line of the
\* artifact, or the fresh header when there is none
PriorHeader ==
    LET previous == get_previous_results(cur_report, files, NoRerunsGiven).header
    IN  IF previous = <<>> THEN FreshHeader ELSE previous

\* the columns the merge appended to the fresh header
AppendedColumns == SubSeq(update.header, Len(FreshHeader) + 1, Len(update.header))

\* C12: the merged header is the fresh header in its order, then the
\* columns only the prior header has, sorted; every column of either header
\* is in it exactly once, and equal headers give that header (prior
\* [date, a, b] and fresh [date, a, c] give [date, a, c, b]).
MergedHeaderOrder ==
    Writing =>
        /\ Len(update.header) >= Len(FreshHeader)
        /\ SubSeq(update.header, 1, Len(FreshHeader)) = FreshHeader
        /\ Range(AppendedColumns) = Range(PriorHeader) \ Range(FreshHeader)
        /\ \A i, j \in DOMAIN AppendedColumns :
               i < j => ColumnLess(AppendedColumns[i], AppendedColumns[j])
        /\ Range(update.header) = Range(FreshHeader) \cup Range(PriorHeader)
        /\ \A c \in Range(FreshHeader) \cup Range(PriorHeader) :
               Cardinality({i \in DOMAIN update.header : update.header[i] = c}) = 1
        /\ (FreshHeader = PriorHeader => update.header = FreshHeader)
        /\ (/\ PriorHeader = <<Str("date"), Str("a"), Str("b")>>
            /\ FreshHeader = <<Str("date"), Str("a"), Str("c")>>)
               => update.header = <<Str("date"), Str("a"), Str("c"), Str("b")>>

\* the merge of fresh [date, a, c] into an artifact of header [date, a, b]
MergedHeaderOrderWitness ==
    /\ Writing
    /\ PriorHeader = <<Str("date"), Str("a"), Str("b")>>
    /\ FreshHeader = <<Str("date"), Str("a"), Str("c")>>
    /\ update.header = <<Str("date"), Str("a"), Str("c"), Str("b")>>

\* the previous data as the merge reads it
PriorData == get_previous_results(cur_report, files, NoRerunsGiven).data

\* the previous dates that the merge kept and the fresh results do not hold
SurvivingDates == (DOMAIN update.data) \ (DOMAIN FreshData)

\* a merged row holds, under every column of the prior header, the value
\* the prior row had under that name, and None under every other column
HoldsPriorRow(merged_row, prior_row) ==
    /\ Len(merged_row) = Len(update.header)
    /\ \A i \in DOMAIN merged_row :
           merged_row[i] =
               (IF update.header[i] \in Range(PriorHeader)
                THEN prior_row[IndexOf(PriorHeader, update.header[i])]
                ELSE None)

\* C13: when the headers differ, every surviving prior row is in the order
\* of the merged header, with its prior value under every column name of
\* both headers and null under every column the prior header has not; every
\* fresh row keeps its values, followed by one null per removed column.
RowsReconciled ==
    (Writing /\ FreshHeader # PriorHeader) =>
        /\ \A d \in SurvivingDates :
               /\ d \in DOMAIN PriorData
               /\ Len(RowsOf(cur_report, update.data[d])) =
                      Len(RowsOf(cur_report, PriorData[d]))
               /\ \A i \in DOMAIN RowsOf(cur_report, update.data[d]) :
                      HoldsPriorRow(RowsOf(cur_report, update.data[d])[i],
                                    RowsOf(cur_report, PriorData[d])[i])
        /\ \A d \in DOMAIN FreshData :
               /\ HoldsFreshEntry(update.data[d], FreshData[d])
               /\ \A row \in Range(RowsOf(cur_report, update.data[d])) :
                      Len(row) = Len(FreshHeader)
                                 + Cardinality(Range(PriorHeader) \ Range(FreshHeader))

\* fresh [date, a, c] merged into [date, a, b]: the row of 2015-01-02 keeps
\* a and b and has no c, the fresh row has no b
RowsReconciledWitness ==
    /\ Writing
    /\ ~cur_report.is_funnel
    /\ update.header = <<Str("date"), Str("a"), Str("c"), Str("b")>>
    /\ Civil(2015, 1, 2) \in SurvivingDates
    /\ update.data[Civil(2015, 1, 2)] =
           <<DateTime(Civil(2015, 1, 2)), Str("1"), None, Str("2")>>
    /\ update.data[cur_report.start] =
           <<DateTime(cur_report.start), Str("3"), Str("4"), None>>

\* the artifact starts with a header of column names and every row of it
\* has one cell per column
PriorMatchesHeader ==
    /\ ArtifactReadable(cur_report)
    /\ \A i \in DOMAIN ArtifactLines(cur_report) :
           /\ Len(ArtifactLines(cur_report)[i]) = Len(ArtifactLines(cur_report)[1])
           /\ i = 1 => \A j \in DOMAIN ArtifactLines(cur_report)[1] :
                           ArtifactLines(cur_report)[1][j].kind = "str"

\* C14: after the merge of valid fresh results into an artifact whose rows
\* match its header, every row of the merged data has the length of the
\* merged header and starts with the date it is keyed by, also when the
\* header changed (columns added, removed, reordered, first column renamed).
MergedRowsKeyed ==
    (Writing /\ PriorMatchesHeader) =>
        \A d \in DOMAIN update.data :
            \A row \in Range(RowsOf(cur_report, update.data[d])) :
                /\ Len(row) = Len(update.header)
                /\ row[1] = DateTime(d)

\* some row of the fresh results has not the length of the fresh header
FreshMismatch ==
    \E d \in DOMAIN FreshData :
        \E row \in Range(RowsOf(cur_report, FreshData[d])) : Len(row) # Len(FreshHeader)

\* the artifact holds data and no header: its first line is a row of data
HeaderlessData ==
    /\ ArtifactLines(cur_report) # <<>>
    /\ ArtifactLines(cur_report)[1][1].kind = "datetext"

\* the merge fails on a fresh row that does not match the fresh header, the
\* artifact and the metrics as they were
MismatchRejected ==
    [][(pc = "update" /\ FreshMismatch) =>
           (pc' = "raised" /\ files' = files /\ graphite_sent' = graphite_sent)]_vars

\* with no artifact the merge takes the fresh header
FreshHeaderAdopted ==
    [][(pc = "update" /\ ArtifactLines(cur_report) = <<>> /\ ~FreshMismatch) =>
           (pc' = "open" /\ update'.header = FreshHeader)]_vars

\* the merge fails on an artifact with data and no header
HeaderlessRejected ==
    [][(pc = "update" /\ HeaderlessData) => pc' = "raised"]_vars

\* C15: a fresh row whose length differs from the fresh header's makes the
\* merge fail with an error, the artifact not modified and nothing sent to
\* the metrics; a prior artifact with no header and no data adopts the
\* fresh header; prior data without a header fails as a corrupt artifact.
MergeValidated == MismatchRejected /\ FreshHeaderAdopted /\ HeaderlessRejected

-----------------------------------------------------------------------------
(* Properties of the runs: metrics *)

\* C16: the new dates of a merge are the dates of the fresh results that
\* are not dates of the artifact as it is, whatever the rerun directives;
\* the metrics sink receives only dates of the new dates of the report
\* being written: a date the artifact already held, one that a rerun
\* overwrites in particular, is not sent again.
OnlyNewDatesForwarded ==
    [][/\ (pc = "update" /\ pc' = "open") =>
              update'.new_dates = (DOMAIN FreshData) \ PersistedDates(cur_report)
       /\ (graphite_sent' # graphite_sent) =>
              /\ pc = "graphite"
              /\ \A sent \in graphite_sent' \ graphite_sent :
                     sent[1] = CurPath /\ sent[2] \in update.new_dates]_vars

\* a window computed again because of a rerun directive was written over
\* its old row and not sent, while new windows were sent
OnlyNewDatesForwardedWitness ==
    /\ pc = "select"
    /\ faults = 0
    /\ cur_report # NoReport
    /\ CoveredByRerun(cur_report.key, cur_report.start)
    /\ cur_report.start \in DOMAIN update.data
    /\ CurPath \in DOMAIN files
    /\ files[CurPath] = CompleteArtifact
    /\ <<CurPath, cur_report.start>> \notin graphite_sent
    /\ graphite_sent # {}

-----------------------------------------------------------------------------
(* Properties of the normalized results *)

\* the row stored for a window with no data: its start, then nulls
NullRow(start, header) == <<DateTime(start)>> \o [i \in 1..(Len(header) - 1) |-> None]

\* the results of a window with no data: one entry, keyed by its start
EmptyWindowResults(report, header) ==
    [raised |-> FALSE, header |-> header,
     data |-> (report.start :> (IF report.is_funnel THEN <<NullRow(report.start, header)>>
                                ELSE NullRow(report.start, header)))]

\* the starts the selector emits for the report being written
TriagedStarts ==
    {r.start : r \in Range(get_interval_reports(cur_report, now, files, rerun_config).reports)}

\* C17: for a producer that returns no data row for a window (a query with
\* its header, a script that prints only its header line) the normalized
\* results have exactly one entry, keyed by the start of the window, whose
\* row is the start followed by nulls, of the length of the header (a list
\* of that one row for a funnel report); once merged and written, the
\* window is a date of the artifact and the selector does not emit it again.
EmptyWindowDone ==
    /\ normalize_results(cur_report, TRUE, FreshHeader, <<>>)
           = EmptyWindowResults(cur_report, FreshHeader)
    /\ normalize_results(cur_report, FALSE, <<>>, <<FreshHeader>>)
           = EmptyWindowResults(cur_report, FreshHeader)
    /\ (/\ pc = "graphite"
        /\ FreshData = EmptyWindowResults(cur_report, FreshHeader).data) =>
           /\ cur_report.start \in PersistedDates(cur_report)
           /\ cur_report.start \notin TriagedStarts

\* a daily window with no data written into an artifact: it is done, while
\* other windows of the report are still due
EmptyWindowDoneWitness ==
    /\ pc = "graphite"
    /\ cur_report.granularity = "days"
    /\ FreshData = EmptyWindowResults(cur_report, FreshHeader).data
    /\ LinesOfDate(files[CurPath], cur_report.start)
           = <<<<strftime(cur_report.start), CsvCell(None)>>>>
    /\ cur_report.start \notin TriagedStarts
    /\ TriagedStarts # {}

\* C18: for a window that starts on a bucket of its granularity, every
\* date of the window that the producer returns is normalized to the start
\* of its bucket: every key of the results, and the first element of every
\* row under it, is a date aligned with the granularity.
ResultKeysAligned ==
    cur_report.start = truncate_date(cur_report.start, cur_report.granularity) =>
        \A d \in DOMAIN FreshData :
            (cur_report.start <= d /\ d < cur_report.end) =>
                /\ d = truncate_date(d, cur_report.granularity)
                /\ \A row \in Range(RowsOf(cur_report, FreshData[d])) :
                       row[1] = DateTime(truncate_date(d, cur_report.granularity))

-----------------------------------------------------------------------------
(* explode on one definition, over the explode_by of the reader *)

\* the lists of values the reader gives a placeholder: never empty, the
\* values in the order of the configuration
ValueLists ==
    {<<"a">>, <<"a", "b">>, <<"b", "a">>, <<"a", "b", "c">>, <<"a", "a">>,
     <<"a", "a/b">>, <<"b/c", "c">>}

ExplodeByChoices ==
    UNION {[placeholders -> ValueLists] : placeholders \in SUBSET {"editor", "wiki"}}

ExplodeInit ==
    /\ pc = "select"
    /\ now = Civil(2015, 1, 2)
    /\ \E key \in {"r1", "r2"}, granularity \in Granularities :
       \E first_date \in FirstDates(granularity), explode_by \in ExplodeByChoices :
           reports = <<Report(key, granularity, 0, first_date, explode_by, NoLimit,
                              FALSE, FALSE)>>
    /\ files = NoFiles
    /\ temp_files = NoFiles
    /\ rerun_config = NoReruns
    /\ triage = NoTriage
    /\ cur_report = NoReport
    /\ update = NoUpdate
    /\ graphite_sent = {}
    /\ log = {}
    /\ OneRun
    /\ NoInstances

SpecExplode == ExplodeInit /\ [][SelectDefinition]_vars

\* n_1 * ... * n_K for the lists of the placeholders
RECURSIVE ProductOfLengths(_, _)
ProductOfLengths(explode_by, placeholders) ==
    IF placeholders = {} THEN 1
    ELSE LET p == CHOOSE q \in placeholders : TRUE
         IN  Len(explode_by[p]) * ProductOfLengths(explode_by, placeholders \ {p})

\* the assignments of one value of its list to every placeholder
Assignments(explode_by) ==
    {f \in [DOMAIN explode_by -> UNION {Range(values) : values \in ValueLists}] :
        \A p \in DOMAIN explode_by : f[p] \in Range(explode_by[p])}

\* the definition was exploded
Exploded == pc = "select" /\ selector.defs = 2 /\ Len(reports) = 1

\* C19: explode on a definition with K placeholders of n_1..n_K values
\* returns n_1 * ... * n_K reports; each binds every placeholder to one
\* value of its list, the assignments are the cartesian product of the
\* lists, and key, first date and granularity are those of the definition.
ExplodeIsProduct ==
    Exploded =>
        /\ Len(selector.exploded) =
               ProductOfLengths(reports[1].explode_by, DOMAIN reports[1].explode_by)
        /\ \A i \in DOMAIN selector.exploded :
               /\ DOMAIN selector.exploded[i].explode_by = DOMAIN reports[1].explode_by
               /\ \A p \in DOMAIN reports[1].explode_by :
                      selector.exploded[i].explode_by[p] \in Range(reports[1].explode_by[p])
               /\ selector.exploded[i].key = reports[1].key
               /\ selector.exploded[i].first_date = reports[1].first_date
               /\ selector.exploded[i].granularity = reports[1].granularity
        /\ {selector.exploded[i].explode_by : i \in DOMAIN selector.exploded}
               = Assignments(reports[1].explode_by)

\* two placeholders of two and three values: six reports, six assignments
ExplodeIsProductWitness ==
    /\ Exploded
    /\ reports[1].explode_by = [editor |-> <<"a", "b">>, wiki |-> <<"a", "b", "c">>]
    /\ Len(selector.exploded) = 6
    /\ Cardinality({selector.exploded[i].explode_by : i \in DOMAIN selector.exploded}) = 6

-----------------------------------------------------------------------------
(* Properties of the runs: failures of the triage *)

\* the windows of a definition that the selector emitted in this run
EmittedOf(key) == {e \in log : e.stage = "executing" /\ e.path[1] = key}

\* a definition whose triage raised has emitted no window in that run
FailedTriageEmitsNothing ==
    [](\A d \in DOMAIN reports :
           LogAbout("triage", reports[d].key) \in log => EmittedOf(reports[d].key) = {})

\* the step in which the triage of a definition raises leaves the loop over
\* the definitions where it was: the next definition is triaged
OtherDefinitionsTriaged ==
    [][(pc = "select" /\ \E d \in DOMAIN reports :
                            /\ LogAbout("triage", reports[d].key) \notin log
                            /\ LogAbout("triage", reports[d].key) \in log') =>
           /\ pc' = "select"
           /\ selector'.defs = selector.defs
           /\ selector'.exploded = <<>> /\ selector'.intervals = <<>>]_vars

\* C20: when the triage of a definition raises, Selector.run emits no
\* window of that definition in that run, and every other definition of
\* the reader is still triaged.
TriageFailureIsolated == FailedTriageEmitsNothing /\ OtherDefinitionsTriaged

\* the triage of the next exploded report of the definition raises
TriageRaises ==
    /\ pc = "select"
    /\ selector.intervals = <<>> /\ selector.exploded # <<>>
    /\ get_interval_reports(Head(selector.exploded), now, files, rerun_config).raised

\* C21: when the triage of one exploded report raises, only that report
\* is dropped: the remaining exploded reports of the definition are still
\* to be triaged in that run.
InstanceFailureIsolated ==
    [][TriageRaises => selector'.exploded = Tail(selector.exploded)]_vars

-----------------------------------------------------------------------------
(* Properties of get_all_start_dates, on the bounds of the triaged report *)

FirstOfTriage == TriageFirst(triage.report, now)
LastOfTriage == TriageLast(triage.report, now)
IncrementOfTriage == get_increment(triage.report.granularity, 1)

\* nothing is due yet: no date, and no error
NothingDueIsEmpty ==
    (triage.called /\ FirstOfTriage > LastOfTriage) =>
        get_all_start_dates(FirstOfTriage, LastOfTriage, IncrementOfTriage)
            = [raised |-> FALSE, dates |-> <<>>]

\* a negative increment is an error, a positive one with dates due is not
NegativeIncrementRaises ==
    triage.called =>
        /\ get_all_start_dates(FirstOfTriage, LastOfTriage,
                               NegDelta(IncrementOfTriage)).raised
        /\ FirstOfTriage <= LastOfTriage =>
               ~get_all_start_dates(FirstOfTriage, LastOfTriage, IncrementOfTriage).raised

\* C22: get_all_start_dates gives an empty sequence, not an error, when
\* the first date is after the last one (nothing is due yet); it raises an
\* error only when the increment is negative.
StartDatesRaiseOnlyNegative == NothingDueIsEmpty /\ NegativeIncrementRaises

-----------------------------------------------------------------------------
(* reportupdater.py: the pid file, over instances of run started on the   *)
(* same query folder; the pid of an instance is its number                *)

\* what the steps on the pid file leave alone
pipeline_vars == <<pc, now, reports, files, rerun_config, triage, faults, temp_files,
                   cur_report, update, graphite_sent, log, last_log, rerun_folder,
                   rerun_files, runs, selector>>

\* os.kill(pid, 0): the process of the instance is running
pid_exists(pid) == instances[pid] \notin {"idle", "exited", "refused"}

\* the variables of the pipeline that run changes through its artifacts and
\* its rerun files only
pid_frame == <<pc, now, reports, rerun_config, triage, faults, temp_files, cur_report,
               update, graphite_sent, log, last_log, rerun_files, runs, selector>>

\* the artifact of the report of the configuration the instance was given
OutputOf(i) == <<"reportupdater_test", ToString(i)>>

\* a test of the lock that admits every instance
only_instance_running_Always == TRUE

\* no pid file, or the pid file of a process that is gone; a pid file that
\* holds no number cannot be parsed
only_instance_running ==
    IF pid_file.exists
    THEN IF pid_file.pid = 0 THEN FALSE ELSE ~pid_exists(pid_file.pid)
    ELSE TRUE

\* run is started: only_instance_running, then sys.exit(1) or on
CheckInstance(i) ==
    /\ instances[i] = "idle"
    /\ instances' = [instances EXCEPT ![i] = IF only_instance_running THEN "write_pid_file"
                                             ELSE "refused"]
    /\ UNCHANGED pid_file
    /\ UNCHANGED pipeline_vars

\* write_pid_file: io.open(path, 'w') creates or empties the file
OpenPidFile(i) ==
    /\ instances[i] = "write_pid_file"
    /\ pid_file' = PidFile(0)
    /\ instances' = [instances EXCEPT ![i] = "write"]
    /\ UNCHANGED pipeline_vars

\* write_pid_file: the pid is written when the with block is left, or
\* pid_file.write raises (io.open gives a text file, which takes no str in
\* Python 2) and the exception ends run with the empty file in place
WritePidFile(i) ==
    /\ instances[i] = "write"
    /\ \/ /\ pid_file' = PidFile(i)
          /\ instances' = [instances EXCEPT ![i] = "pipeline"]
       \/ /\ UNCHANGED pid_file
          /\ instances' = [instances EXCEPT ![i] = "exited"]
    /\ UNCHANGED pipeline_vars

\* from utcnow() to delete_reruns: the pipeline returns, or an exception
\* leaves run and the process ends with its pid file in place
RunPipeline(i) ==
    /\ instances[i] = "pipeline"
    /\ \/ /\ instances' = [instances EXCEPT ![i] = "delete_pid_file"]
          /\ files' = (OutputOf(i) :> <<HeaderLine>>) @@ files
          /\ rerun_folder' = NoFiles
       \/ /\ instances' = [instances EXCEPT ![i] = "exited"]
          /\ UNCHANGED <<files, rerun_folder>>
    /\ UNCHANGED pid_file
    /\ UNCHANGED pid_frame

\* delete_pid_file: os.remove, an OSError logged; then run returns
DeletePidFile(i) ==
    /\ instances[i] = "delete_pid_file"
    /\ pid_file' = NoPidFile
    /\ instances' = [instances EXCEPT ![i] = "exited"]
    /\ UNCHANGED pipeline_vars

PidInit ==
    /\ pc = "idle"
    /\ now = Civil(2015, 1, 2)
    /\ reports = <<>>
    /\ files = NoFiles
    /\ temp_files = NoFiles
    /\ rerun_config = NoReruns
    /\ triage = NoTriage
    /\ cur_report = NoReport
    /\ update = NoUpdate
    /\ graphite_sent = {}
    /\ log = {}
    /\ last_log = {}
    /\ rerun_folder \in RetentionRerunChoices
    /\ rerun_files = <<>>
    /\ runs = 1
    /\ selector = NoSelector
    /\ faults = 0
    /\ NoInstances

\* the process of the instance is ended from outside at some point of run
Terminate(i) ==
    /\ instances[i] \in {"write_pid_file", "write", "pipeline", "delete_pid_file"}
    /\ instances' = [instances EXCEPT ![i] = "exited"]
    /\ UNCHANGED pid_file
    /\ UNCHANGED pipeline_vars

PidNext ==
    \E i \in Instances :
        \/ CheckInstance(i)
        \/ OpenPidFile(i)
        \/ WritePidFile(i)
        \/ RunPipeline(i)
        \/ DeletePidFile(i)
        \/ Terminate(i)

SpecPid == PidInit /\ [][PidNext]_vars

\* the instances between write_pid_file and delete_pid_file
InPipeline == {i \in Instances : instances[i] = "pipeline"}

\* C23: in every interleaving of instances started on the same query
\* folder, at most one instance is between write_pid_file and
\* delete_pid_file at any time, and an instance started while another one
\* is there does not run the pipeline.
PidMutualExclusion ==
    /\ [](Cardinality(InPipeline) <= 1)
    /\ [][\A i \in Instances :
              (instances[i] = "idle" /\ InPipeline # {}) => instances'[i] # "write_pid_file"]_vars

-----------------------------------------------------------------------------
(* Properties of the runs: the order of the steps *)

\* the window was given to the producer in this run
ExecutedInRun(path, start) ==
    [stage |-> "executing", path |-> path, start |-> start] \in log

\* the producer or the writer of the window failed in this run
FailedInRun(path, start) ==
    \E stage \in {"execute", "write"} :
        [stage |-> stage, path |-> path, start |-> start] \in log

\* the window the pipeline holds has been through all its steps: it failed,
\* or its artifact is the complete merge, no temporary file is left and its
\* new dates were sent
WindowFinished ==
    \/ FailedInRun(CurPath, cur_report.start)
    \/ /\ CurPath \in DOMAIN files
       /\ files[CurPath] = CompleteArtifact
       /\ CurPath \notin DOMAIN temp_files
       /\ cur_report.graphite =>
              \A d \in update.new_dates : <<CurPath, d>> \in graphite_sent

\* C24: the windows go through the pipeline one at a time: when the
\* producer is about to be invoked for a window, the producer call, the
\* merge, the replacement of the artifact and the sending of the metrics
\* of the window before it have finished or failed; and the merge of a
\* window reads the artifact with every window of its path that was
\* written before it in the run, which it keeps unless the retention limit
\* evicts it.
WindowsSequential ==
    [][/\ (pc' = "execute") =>
              /\ pc = "select"
              /\ ExecutedInRun(CurPath, cur_report.start) => WindowFinished
       /\ (pc = "update" /\ pc' = "open") =>
              \A e \in log :
                  (/\ e.stage = "executing" /\ e.path = CurPath
                   /\ e.start # cur_report.start
                   /\ ~FailedInRun(e.path, e.start)) =>
                      /\ e.start \in PersistedDates(cur_report)
                      /\ \/ e.start \in DOMAIN update'.data
                         \/ /\ cur_report.max_data_points # NoLimit
                            /\ e.start <= EvictionThreshold]_vars

\* the merge of the second window of a run holds the row that the first
\* window of the run wrote into the artifact that did not exist before
WindowsSequentialWitness ==
    /\ pc = "open"
    /\ runs = 1
    /\ faults = 0
    /\ \E e \in log :
           /\ e.stage = "executing" /\ e.path = CurPath
           /\ e.start < cur_report.start
           /\ e.start \in DOMAIN update.data
           /\ update.data[e.start] = <<DateTime(e.start), Str("new")>>
           /\ files[CurPath] = <<HeaderLine, Line(DayOf(e.start), "new")>>

-----------------------------------------------------------------------------
(* Properties of the triage: the windows of one exploded report *)

\* the instant is the start of a bucket: a midnight, of a Sunday for weeks,
\* of the first of the month for months
StartsBucket(date, granularity) ==
    /\ SecondOfDay(date) = 0
    /\ granularity = "weeks" => IsoWeekday(date) = 7
    /\ granularity = "months" => DayOfMonth(date) = 1

\* C25: every window the triage emits starts on a bucket of the
\* granularity and ends one increment later; the windows emitted for one
\* exploded report are in strictly ascending order of start, no start
\* twice, and their ranges [start, end) do not overlap.
WindowsAlignedAscending ==
    triage.called =>
        /\ \A i \in DOMAIN triage.reports :
               /\ StartsBucket(triage.reports[i].start, triage.report.granularity)
               /\ triage.reports[i].start =
                      truncate_date(triage.reports[i].start, triage.report.granularity)
               /\ triage.reports[i].end =
                      AddDelta(triage.reports[i].start,
                               get_increment(triage.report.granularity, 1))
               /\ StartsBucket(triage.reports[i].end, triage.report.granularity)
        /\ \A i, j \in DOMAIN triage.reports :
               i < j => /\ triage.reports[i].start < triage.reports[j].start
                        /\ triage.reports[i].end <= triage.reports[j].start

\* three windows or more of a weekly report whose first date is inside a
\* week, triaged at a time inside a week
WindowsAlignedAscendingWitness ==
    /\ triage.called
    /\ triage.report.granularity = "weeks"
    /\ ~StartsBucket(triage.report.first_date, "weeks")
    /\ ~StartsBucket(now, "weeks")
    /\ Len(triage.reports) >= 3
    /\ triage.reports[2].start = triage.reports[1].start + 7 * SecondsPerDay

\* the start dates of the triaged report
StartDatesOfTriage ==
    get_all_start_dates(FirstOfTriage, LastOfTriage, IncrementOfTriage)

\* first + k * increment
StepFromFirst(k) ==
    AddDelta(FirstOfTriage, get_increment(triage.report.granularity, k))

\* C26: for first <= last and a positive increment get_all_start_dates
\* ends and yields the dates first + k * increment, k = 0, 1, ..., that
\* are not after last, in ascending order, with both ends (one date when
\* first = last).
StartDatesInclusive ==
    (triage.called /\ FirstOfTriage <= LastOfTriage) =>
        /\ ~StartDatesOfTriage.raised
        /\ Len(StartDatesOfTriage.dates) >= 1
        /\ \A k \in DOMAIN StartDatesOfTriage.dates :
               /\ StartDatesOfTriage.dates[k] = StepFromFirst(k - 1)
               /\ StartDatesOfTriage.dates[k] <= LastOfTriage
               /\ k > 1 => StartDatesOfTriage.dates[k - 1] < StartDatesOfTriage.dates[k]
        /\ StepFromFirst(Len(StartDatesOfTriage.dates)) > LastOfTriage
        /\ FirstOfTriage = LastOfTriage => StartDatesOfTriage.dates = <<FirstOfTriage>>

\* the months from the one of the first date to the last one, four or
\* more, the last date among them
StartDatesInclusiveWitness ==
    /\ triage.called
    /\ triage.report.granularity = "months"
    /\ FirstOfTriage < LastOfTriage
    /\ Len(StartDatesOfTriage.dates) >= 4
    /\ StartDatesOfTriage.dates[1] = FirstOfTriage
    /\ StartDatesOfTriage.dates[Len(StartDatesOfTriage.dates)] = LastOfTriage

\* a failure was logged in the set of log entries
FailureLogged(entries) == \E e \in entries : e.stage \in {"execute", "write", "triage"}

\* a run has ended, and neither it nor one before it met a failure
CleanRunDone == pc = "idle" /\ runs >= 1 /\ faults = 0 /\ ~FailureLogged(log \cup last_log)

\* the second run goes on, at the execution time of the first, the first
\* without a failure and the second without rerun directives
SecondRunAtSameTime ==
    /\ runs = 2
    /\ \E i \in DOMAIN reports : now = RetentionNow(reports[i].granularity)
    /\ faults = 0
    /\ ~FailureLogged(last_log)
    /\ rerun_config = NoReruns

\* C27: after a run at time T whose triaged windows were all executed and
\* written, every aligned window start between the first and the last date of
\* the triage is a date of the artifact of its report; and a second run at
\* the same time T without rerun directives triages no window, invokes no
\* producer and leaves every artifact as it is.
SecondRunIdempotent ==
    /\ [](CleanRunDone =>
            \A report \in AllExploded :
                AlignedStarts(TriageFirst(report, now), TriageLast(report, now),
                              report.granularity) \subseteq PersistedDates(report))
    /\ [][SecondRunAtSameTime =>
            /\ files' = files
            /\ selector'.intervals = <<>>
            /\ pc' \notin {"execute", "update", "open", "rename"}
            /\ ~\E e \in log' : e.stage = "executing"]_vars

SecondRunIdempotentWitness ==
    /\ SecondRunAtSameTime
    /\ pc = "idle"
    /\ \E e \in last_log : e.stage = "executing"
    /\ \A report \in AllExploded : Cardinality(PersistedDates(report)) >= 2

\* C28: every binding of a definition persists to an artifact of its own:
\* the path of an exploded report is made of its key and of the values bound
\* to its placeholders, in the sorted order of the placeholder names, and two
\* reports of the definition that differ in a bound value have different
\* paths.
ArtifactPerBinding ==
    Exploded =>
        \A i, j \in DOMAIN selector.exploded :
            /\ OutputPath(selector.exploded[i]) =
                   <<selector.exploded[i].key>>
                   \o JoinValues(selector.exploded[i].explode_by,
                                 SortedPlaceholders(selector.exploded[i].explode_by))
            /\ selector.exploded[i].explode_by # selector.exploded[j].explode_by =>
                   OutputPath(selector.exploded[i]) # OutputPath(selector.exploded[j])

\* the same with values that hold no separator
ArtifactPerBindingOfPlainValues ==
    (Exploded /\ \A i \in DOMAIN selector.exploded :
                    \A p \in DOMAIN selector.exploded[i].explode_by :
                        PathComponents(selector.exploded[i].explode_by[p])
                            = <<selector.exploded[i].explode_by[p]>>) =>
        \A i, j \in DOMAIN selector.exploded :
            selector.exploded[i].explode_by # selector.exploded[j].explode_by =>
                OutputPath(selector.exploded[i]) # OutputPath(selector.exploded[j])

-----------------------------------------------------------------------------
(* the objects of explode *)

\* an object is named by the copies that led to it from the report explode
\* was called with: that report is <<>>, and deepcopy of an object for the
\* i-th value of a placeholder is a new object
InputObject == <<>>

RECURSIVE ExplodeValuesObjects(_, _, _, _, _, _)
RECURSIVE explode_objects(_, _, _, _)

\* the loop over the values: report_copy = deepcopy(report) for each
ExplodeValuesObjects(report, placeholder, i, visited, pop_order, object) ==
    IF i > Len(report.explode_by[placeholder]) THEN <<>>
    ELSE explode_objects([report EXCEPT !.explode_by[placeholder] =
                                            report.explode_by[placeholder][i]],
                         visited, pop_order, Append(object, i))
         \o ExplodeValuesObjects(report, placeholder, i + 1, visited, pop_order, object)

\* the objects in the list explode returns: the simple case returns the
\* object it was given
explode_objects(report, visited, pop_order, object) ==
    LET remaining_placeholders == (DOMAIN report.explode_by) \ visited
    IN  IF Cardinality(remaining_placeholders) > 0
        THEN LET placeholder == PopPlaceholder(remaining_placeholders, pop_order)
             IN  ExplodeValuesObjects(report, placeholder, 1,
                                      visited \cup {placeholder}, pop_order, object)
        ELSE <<object>>

\* C29: report instances are copied, never shared: every report that explode
\* emits is an object of its own, neither the definition explode was given
\* nor another emitted report, so that setting the window, the results or a
\* value of one of them changes neither the definition nor another one.
EmittedAreCopies ==
    Exploded =>
        \A pop_order \in PopOrders :
            LET objects == explode_objects(reports[1], {}, pop_order, InputObject)
            IN  /\ Len(objects) = Len(selector.exploded)
                /\ \A i \in DOMAIN objects :
                       /\ objects[i] # InputObject
                       /\ \A j \in DOMAIN objects : i # j => objects[i] # objects[j]

\* the same for the definitions that have a placeholder
EmittedAreCopiesOfExploded ==
    (Exploded /\ DOMAIN reports[1].explode_by # {}) =>
        \A pop_order \in PopOrders :
            LET objects == explode_objects(reports[1], {}, pop_order, InputObject)
            IN  \A i \in DOMAIN objects :
                    /\ objects[i] # InputObject
                    /\ \A j \in DOMAIN objects : i # j => objects[i] # objects[j]

\* the artifact of the current report is the complete result of its merge
Persisted ==
    /\ update # NoUpdate
    /\ CurPath \in DOMAIN files
    /\ files[CurPath] = CompleteArtifact

\* C30: metrics are forwarded only after persistence: a row is recorded to
\* graphite only at record_to_graphite, when the artifact of the report has
\* been replaced by the result of the merge, and only for a new date of that
\* report; when the merge raises or a step of the write fails, nothing has
\* been forwarded for the window.
MetricsAfterPersistence ==
    /\ [][graphite_sent' # graphite_sent =>
            /\ pc = "graphite"
            /\ Persisted
            /\ temp_files' = temp_files /\ CurPath \notin DOMAIN temp_files
            /\ graphite_sent' \ graphite_sent
                   \subseteq {<<CurPath, date>> : date \in update.new_dates}]_vars
    /\ []((pc \in {"select", "raised"} /\ ~Persisted) =>
              \A date \in DOMAIN FreshData : <<CurPath, date>> \notin graphite_sent)

\* the rename failed when the temporary file was complete, for a report
\* with new dates and a graphite configuration: none of them was forwarded
MetricsAfterPersistenceWitness ==
    /\ pc = "select"
    /\ cur_report.graphite
    /\ LogEntry("write", cur_report) \in log
    /\ update.new_dates # {}
    /\ CurPath \in DOMAIN temp_files
    /\ temp_files[CurPath] = CompleteArtifact
    /\ ~Persisted
    /\ graphite_sent = {}

-----------------------------------------------------------------------------
(* runs whose producer may date a row after the end of its window *)

\* three daily windows are due at the first run of a report that keeps one
\* window more than MaxDataPoints
ForwardInit ==
    /\ pc = "idle"
    /\ now = Civil(2015, 1, 4)
    /\ reports = <<Report("r2", "days", 0, BaseDate, NoExplode, MaxDataPoints + 1,
                          FALSE, TRUE)>>
    /\ files = NoFiles
    /\ temp_files = NoFiles
    /\ rerun_config = NoReruns
    /\ triage = NoTriage
    /\ cur_report = NoReport
    /\ update = NoUpdate
    /\ graphite_sent = {}
    /\ log = {}
    /\ last_log = {}
    /\ rerun_folder \in RetentionRerunChoices
    /\ rerun_files = <<>>
    /\ runs = 0
    /\ selector = NoSelector
    /\ faults = 0
    /\ NoInstances

ForwardNext ==
    \/ StartRun
    \/ SelectDefinition
    \/ SelectExploded
    \/ SelectInterval
    \/ SelectDone
    \/ ExecuteFrom("late")
    \/ UpdateResults
    \/ WriteOpen
    \/ WriteHeader
    \/ WriteRow
    \/ WriteClose
    \/ Rename
    \/ RecordToGraphite
    \/ DeleteReruns

SpecForward == ForwardInit /\ [][ForwardNext]_vars

\* C31: across runs of non-decreasing execution times, with rerun
\* directives, producer failures and write failures, the rows of a window
\* date of a report are forwarded to graphite at most once: no date that
\* record_to_graphite is called with has been forwarded before.
ForwardedAtMostOnce ==
    (pc = "graphite" /\ cur_report.graphite) =>
        \A date \in update.new_dates : <<CurPath, date>> \notin graphite_sent

-----------------------------------------------------------------------------
(* Properties of the writer: the prior data in the merge *)

\* the lines of the artifact that start with a date
DatedLines ==
    {i \in DOMAIN ArtifactLines(cur_report) :
        /\ Len(ArtifactLines(cur_report)[i]) > 0
        /\ ArtifactLines(cur_report)[i][1].kind = "datetext"}

\* the window dates the artifact holds
PriorDates == {ArtifactLines(cur_report)[i][1].n * SecondsPerDay : i \in DatedLines}

\* a merged row holds, under every column name of the prior header, the
\* value the prior row had under that name
KeepsPriorValues(merged_row, prior_row) ==
    \A c \in Range(PriorHeader) :
        /\ c \in Range(update.header)
        /\ merged_row[IndexOf(update.header, c)] = prior_row[IndexOf(PriorHeader, c)]

\* C32: the merge preserves the prior data: for a report without a
\* retention limit every window date of the prior artifact is a key of the
\* merged data, and under every prior date that the fresh results do not
\* hold the merged rows have, for every column name of the prior header, the
\* value of the prior row.
MergePreservesPrior ==
    (Writing /\ cur_report.max_data_points = NoLimit) =>
        /\ PriorDates \subseteq DOMAIN update.data
        /\ \A d \in (DOMAIN PriorData) \ (DOMAIN FreshData) :
               /\ d \in DOMAIN update.data
               /\ Len(RowsOf(cur_report, update.data[d])) =
                      Len(RowsOf(cur_report, PriorData[d]))
               /\ \A i \in DOMAIN RowsOf(cur_report, update.data[d]) :
                      KeepsPriorValues(RowsOf(cur_report, update.data[d])[i],
                                       RowsOf(cur_report, PriorData[d])[i])

\* the same for the artifacts that start with a header line
MergePreservesPriorWithHeader ==
    (Writing /\ cur_report.max_data_points = NoLimit /\ ~HeaderlessData) =>
        /\ PriorDates \subseteq DOMAIN update.data
        /\ \A d \in (DOMAIN PriorData) \ (DOMAIN FreshData) :
               /\ d \in DOMAIN update.data
               /\ \A i \in DOMAIN RowsOf(cur_report, update.data[d]) :
                      KeepsPriorValues(RowsOf(cur_report, update.data[d])[i],
                                       RowsOf(cur_report, PriorData[d])[i])

-----------------------------------------------------------------------------
(* Properties of the pid file *)

\* the instance is started while the pid file holds the pid of another
\* instance that is running
LockedOut(i) ==
    /\ instances[i] = "idle"
    /\ pid_file.exists
    /\ pid_file.pid \in Instances \ {i}
    /\ pid_exists(pid_file.pid)

\* C33: an instance that finds the pid file of another running instance
\* exits without running the pipeline: its step leaves the pid file, the
\* artifacts and the rerun files as they are, it takes no step after it, and
\* no artifact of its configuration is written.
BlockedInstanceExits ==
    /\ [][\A i \in Instances :
              /\ (LockedOut(i) /\ instances'[i] # "idle") =>
                     /\ instances'[i] = "refused"
                     /\ pid_file' = pid_file
                     /\ files' = files
                     /\ rerun_folder' = rerun_folder
              /\ instances[i] = "refused" => instances'[i] = "refused"]_vars
    /\ [](\A i \in Instances : instances[i] = "refused" => OutputOf(i) \notin DOMAIN files)

\* the second instance was refused while the first one was running, which
\* then wrote its artifact, deleted the rerun file and its pid file
BlockedInstanceExitsWitness ==
    /\ instances[2] = "refused"
    /\ instances[1] = "exited"
    /\ OutputOf(1) \in DOMAIN files
    /\ OutputOf(2) \notin DOMAIN files
    /\ rerun_folder = NoFiles
    /\ pid_file = NoPidFile

\* no process of an instance is running
NoInstanceRunning == \A i \in Instances : ~pid_exists(i)

\* C34: the pid file never blocks for good: whenever no instance is
\* running, whether the last one deleted its pid file or ended at some point
\* of run with the pid file left as it was, an instance that is started
\* passes only_instance_running.
LockNeverBlocks == NoInstanceRunning => only_instance_running

\* the same when the pid file that is left holds a pid
StalePidPasses == (NoInstanceRunning /\ pid_file # PidFile(0)) => only_instance_running

-----------------------------------------------------------------------------
(* rerun_reports run by an operator while reportupdater runs *)

\* all the variables but the rerun folder
rerun_frame == <<pc, now, reports, files, temp_files, rerun_config, triage, cur_report,
                 update, graphite_sent, log, last_log, rerun_files, runs, selector,
                 faults, pid_file, instances>>

\* the file rerun_reports creates, named after the time, and its lines
NewRerunFile == "f3"
NewDirective == RerunLines(2015, 1, 1, 2015, 1, 2, <<"r1", "r2">>)

\* io.open(rerun_path, 'w'): the file is there and empty
RerunReportsOpen ==
    /\ NewRerunFile \notin DOMAIN rerun_folder
    /\ rerun_folder' = (NewRerunFile :> <<>>) @@ rerun_folder
    /\ UNCHANGED rerun_frame

\* writelines: the buffer of the file is written when it is full, which
\* leaves the first lines of the text in the file
RerunReportsFlush ==
    /\ NewRerunFile \in DOMAIN rerun_folder
    /\ rerun_folder[NewRerunFile] = <<>>
    /\ rerun_folder' = [rerun_folder EXCEPT ![NewRerunFile] = SubSeq(NewDirective, 1, 3)]
    /\ UNCHANGED rerun_frame

\* the with block is left: the file holds all its lines
RerunReportsClose ==
    /\ NewRerunFile \in DOMAIN rerun_folder
    /\ rerun_folder[NewRerunFile] # NewDirective
    /\ rerun_folder' = [rerun_folder EXCEPT ![NewRerunFile] = NewDirective]
    /\ UNCHANGED rerun_frame

\* r1 of wiki a is to compute, the other artifacts are computed; no rerun
\* file yet
RerunInit ==
    /\ pc = "idle"
    /\ now = Civil(2015, 1, 2)
    /\ reports = Definitions("days", 0, BaseDate, NoLimit)
    /\ files = Folder({<<PathB, DoneArtifact>>, <<PathR2, DoneArtifact>>})
    /\ temp_files = NoFiles
    /\ rerun_config = NoReruns
    /\ triage = NoTriage
    /\ cur_report = NoReport
    /\ update = NoUpdate
    /\ graphite_sent = {}
    /\ log = {}
    /\ last_log = {}
    /\ rerun_folder = NoFiles
    /\ rerun_files = <<>>
    /\ runs = 0
    /\ selector = NoSelector
    /\ faults = 0
    /\ NoInstances

RerunNext ==
    \/ Next
    \/ RerunReportsOpen
    \/ RerunReportsFlush
    \/ RerunReportsClose

SpecRerun == RerunInit /\ [][RerunNext]_vars

\* rerun_reports whose text reaches the file in one piece
RerunNextWhole ==
    \/ Next
    \/ RerunReportsOpen
    \/ RerunReportsClose

SpecRerunWhole == RerunInit /\ [][RerunNextWhole]_vars

\* the rerun configuration of the run holds the interval of the lines for
\* every report key of the lines
AppliedInFull(lines, config) ==
    /\ WellFormed(lines)
    /\ \A i \in 3..Len(lines) :
           /\ lines[i].s \in DOMAIN config
           /\ <<lines[1].n * SecondsPerDay, lines[2].n * SecondsPerDay>>
                  \in Range(config[lines[i].s])

\* C35: a rerun file leaves the folder only in delete_reruns of a run that
\* parsed it, and all that the file holds when it is deleted was applied to
\* the triage of that run; a file that rerun_reports created after the run
\* read the folder stays, and the next run parses and applies it.
RerunsDeletedWhenApplied ==
    [][/\ \A name \in (DOMAIN rerun_folder) \ (DOMAIN rerun_folder') :
              /\ pc = "delete_reruns"
              /\ name \in Range(rerun_files)
              /\ AppliedInFull(rerun_folder[name], rerun_config)
       /\ (runs' # runs) =>
              \A name \in DOMAIN rerun_folder :
                  WellFormed(rerun_folder[name]) =>
                      /\ name \in Range(rerun_files')
                      /\ AppliedInFull(rerun_folder[name], rerun_config')]_vars

-----------------------------------------------------------------------------
(* the order of the reports of explode *)

\* C36: the order in which explode emits is deterministic: another call of
\* explode on the same definition, whatever the order in which it pops the
\* placeholders, returns the same sequence of reports; and the reports of a
\* definition with one placeholder come in the order of its list of values.
ExplodeOrderIsDeterministic ==
    Exploded =>
        /\ \A pop_order \in PopOrders :
               explode(reports[1], {}, pop_order) = selector.exploded
        /\ \A placeholder \in DOMAIN reports[1].explode_by :
               DOMAIN reports[1].explode_by = {placeholder} =>
                   /\ Len(selector.exploded) = Len(reports[1].explode_by[placeholder])
                   /\ \A i \in DOMAIN selector.exploded :
                          selector.exploded[i].explode_by[placeholder]
                              = reports[1].explode_by[placeholder][i]

\* the same for the definitions with at most one placeholder
ExplodeOrderOfOnePlaceholder ==
    (Exploded /\ Cardinality(DOMAIN reports[1].explode_by) <= 1) =>
        /\ \A pop_order \in PopOrders :
               explode(reports[1], {}, pop_order) = selector.exploded
        /\ \A placeholder \in DOMAIN reports[1].explode_by :
               /\ Len(selector.exploded) = Len(reports[1].explode_by[placeholder])
               /\ \A i \in DOMAIN selector.exploded :
                      selector.exploded[i].explode_by[placeholder]
                          = reports[1].explode_by[placeholder][i]

\* with several placeholders the calls return the same reports, in orders
\* that may differ
ExplodeSameReports ==
    Exploded =>
        \A pop_order \in PopOrders :
            Range(explode(reports[1], {}, pop_order)) = Range(selector.exploded)

-----------------------------------------------------------------------------
(* the layout of the artifact *)

\* the lines of the artifact after its first line
BodyLines == SubSeq(files[CurPath], 2, Len(files[CurPath]))

\* C37: the artifact that write_results persisted is the merged header in
\* its first line and then the merged rows in ascending order of date: one
\* line for every date, or, for a funnel report, the rows of every date next
\* to each other in the order of the merged list; and get_previous_results
\* on that artifact, with no rerun, gives the merged header and the merged
\* dates back.
ArtifactLayout ==
    pc = "graphite" =>
        LET lines == files[CurPath]
            reread == get_previous_results(cur_report, files, NoReruns)
        IN  /\ Len(lines) >= 1
            /\ lines[1] = update.header
            /\ \A i \in DOMAIN BodyLines :
                   /\ BodyLines[i][1].kind = "datetext"
                   /\ \A j \in DOMAIN BodyLines :
                          i < j => IF cur_report.is_funnel
                                   THEN BodyLines[i][1].n <= BodyLines[j][1].n
                                   ELSE BodyLines[i][1].n < BodyLines[j][1].n
            /\ {strptime(BodyLines[i][1]) : i \in DOMAIN BodyLines} = DOMAIN update.data
            /\ \A date \in DOMAIN update.data :
                   LET rows == RowsOf(cur_report, update.data[date])
                   IN  LinesOfDate(lines, date) = [i \in DOMAIN rows |-> WrittenLine(rows[i])]
            /\ ~reread.raised
            /\ reread.header = update.header
            /\ DOMAIN reread.data = DOMAIN update.data

\* the artifact of a funnel report with a date of several rows, between two
\* other dates
ArtifactLayoutWitness ==
    /\ pc = "graphite"
    /\ cur_report.is_funnel
    /\ Cardinality(DOMAIN update.data) >= 3
    /\ \E date \in DOMAIN update.data :
           /\ Len(update.data[date]) >= 2
           /\ \E before, after \in DOMAIN update.data : before < date /\ date < after
    /\ Len(files[CurPath]) = 1 + Len(update.rows)

\* the same for a report that is no funnel, with a fresh date between two
\* prior dates
ArtifactLayoutWitnessOfRows ==
    /\ pc = "graphite"
    /\ ~cur_report.is_funnel
    /\ \E date \in DOMAIN FreshData :
           \E before, after \in (DOMAIN update.data) \ (DOMAIN FreshData) :
               before < date /\ date < after

-----------------------------------------------------------------------------
(* truncate_date on one instant *)

\* the days of the instants: the turn of a year, every day of the week, the
\* end of the February of a leap year
TruncateDays ==
    (Day(2014, 12, 25)..Day(2015, 1, 12)) \cup (Day(2016, 2, 27)..Day(2016, 3, 2))

\* the seconds of the day of the instants
TruncateSeconds == {0, 1, 3599, 3600, 4830, 37230, 86399}

\* the selector truncates the time of the run with the granularity of a
\* report, and truncates the result again
TruncateInit ==
    /\ pc = "truncate"
    /\ \E day \in TruncateDays, second \in TruncateSeconds :
           now = day * SecondsPerDay + second
    /\ \E granularity \in Periods :
           reports = <<Report("r1", granularity, 0, BaseDate, NoExplode, NoLimit,
                              FALSE, FALSE)>>
    /\ files = NoFiles
    /\ temp_files = NoFiles
    /\ rerun_config = NoReruns
    /\ triage = NoTriage
    /\ cur_report = NoReport
    /\ update = NoUpdate
    /\ graphite_sent = {}
    /\ log = {}
    /\ OneRun
    /\ NoInstances

TruncateDate ==
    /\ pc \in {"truncate", "truncated"}
    /\ cur_report' =
           [reports[1] EXCEPT !.start =
               truncate_date(IF pc = "truncate" THEN now ELSE cur_report.start,
                             reports[1].granularity)]
    /\ pc' = (IF pc = "truncate" THEN "truncated" ELSE "truncated_twice")
    /\ UNCHANGED <<now, reports, files, temp_files, rerun_config, triage, update,
                   graphite_sent, log, faults>>
    /\ UNCHANGED run_vars
    /\ UNCHANGED pid_vars

SpecTruncate == TruncateInit /\ [][TruncateDate]_vars

\* the day of the test of truncate_date for weeks, a Sunday
KnownSunday == Day(2014, 12, 28)

\* C38: truncate_date of an instant d for weeks is a midnight, its day is a
\* Sunday, it is not after d and it is less than seven days before d.
WeekStartsOnSunday ==
    (pc = "truncated" /\ cur_report.granularity = "weeks") =>
        /\ SecondOfDay(cur_report.start) = 0
        /\ (DayOf(cur_report.start) - KnownSunday) % 7 = 0
        /\ cur_report.start <= now
        /\ now - cur_report.start < 7 * SecondsPerDay

\* a Saturday evening truncated to the Sunday six days before, in the year
\* before
WeekStartsOnSundayWitness ==
    /\ pc = "truncated"
    /\ cur_report.granularity = "weeks"
    /\ now = Civil(2015, 1, 3) + 86399
    /\ cur_report.start = Civil(2014, 12, 28)

\* a Sunday is truncated to its own midnight
WeekStartsOnSundayWitnessOfSunday ==
    /\ pc = "truncated"
    /\ cur_report.granularity = "weeks"
    /\ now = Civil(2015, 1, 4) + 4830
    /\ cur_report.start = Civil(2015, 1, 4)

\* C39: for each of the granularities hours, days, weeks and months,
\* truncate_date of an instant d is not after d, and truncate_date of the
\* result is the result.
TruncateIsIdempotent ==
    /\ pc = "truncated" =>
           /\ cur_report.start <= now
           /\ truncate_date(cur_report.start, cur_report.granularity) = cur_report.start
    /\ pc = "truncated_twice" =>
           /\ cur_report.start <= now
           /\ cur_report.start = truncate_date(now, cur_report.granularity)

\* the last day of a February of 29 days truncated twice for months
TruncateIsIdempotentWitness ==
    /\ pc = "truncated_twice"
    /\ cur_report.start < now
    /\ cur_report.granularity = "months"
    /\ now = Civil(2016, 2, 29) + 37230
    /\ cur_report.start = Civil(2016, 2, 1)

=============================================================================
